---- MODULE Spec2Model ----
(***************************************************************************)
(* Model of smexperiments.metrics.SageMakerMetricsWriter: caller threads   *)
(* calling log_metric / close / the context manager, the bounded work      *)
(* queue, and the publisher thread running _publish_loop.                  *)
(***************************************************************************)
EXTENDS Integers, Sequences, FiniteSets, TLC

\* ------------------------------------------------------------------ sizes
\* SageMakerMetricsWriter.BATCH_MAX_SIZE / QUEUE_SIZE (class attributes).
BATCH_MAX_SIZE == 10
QUEUE_SIZE == 3 * BATCH_MAX_SIZE
\* SageMakerMetricsWriter._terminate_message, the poison pill (an int, which
\* compares unequal to every _RawMetricData object).
terminate_message == [pill |-> 666101999]

\* Caller threads: t1 is the thread that owns the writer, t2 another thread
\* that was handed a reference to it.
Threads == {"t1", "t2"}
\* Valid log_metric calls of t1 outside the burst scenario.
MaxLogs == 2
\* Valid log_metric calls of t2 in the concurrent scenario.
MaxOtherLogs == 1
\* Points logged by t1 in the burst scenario: QUEUE_SIZE + BurstExtra.
BurstExtra == 1
\* log_metric calls with invalid arguments (t1, lifecycle scenario).
MaxBad == 1
\* close() calls of t1 in the lifecycle scenario.
MaxClose == 2
\* batch_put_metrics calls that may fail in the lifecycle scenario.
MaxFailures == 2
\* batch_put_metrics calls are counted up to this number.
MaxCounted == 3

\* The client programs.
\*   burst:      tests/integ/test_metrics.py::test_api_writer: t1 logs
\*               QUEUE_SIZE + BurstExtra points inside a with statement
\*               (raise_on_close=True); the sink succeeds or hangs.
\*   lifecycle:  t1 alone calls log_metric (valid and invalid), close and the
\*               context manager in any order; the sink answers in every way.
\*   concurrent: t1 and t2 call log_metric and close in any order on a
\*               writer built with the default raise_on_close=False; the
\*               sink succeeds.
Scenarios == {"burst", "lifecycle", "concurrent"}

LogsOf(sc, t) ==
    CASE sc = "burst" -> (IF t = "t1" THEN QUEUE_SIZE + BurstExtra ELSE 0)
      [] sc = "lifecycle" -> (IF t = "t1" THEN MaxLogs ELSE 0)
      [] OTHER -> (IF t = "t1" THEN MaxLogs ELSE MaxOtherLogs)
BadOf(sc, t) == IF sc = "lifecycle" /\ t = "t1" THEN MaxBad ELSE 0
ClosesOf(sc, t) ==
    CASE sc = "burst" -> 0
      [] sc = "lifecycle" -> (IF t = "t1" THEN MaxClose ELSE 0)
      [] OTHER -> 1
WithOf(sc, t) == sc \in {"burst", "lifecycle"} /\ t = "t1"
FailuresOf(sc) == IF sc = "lifecycle" THEN MaxFailures ELSE 0
RaiseOnCloseOf(sc) ==
    CASE sc = "burst" -> {TRUE}
      [] sc = "lifecycle" -> BOOLEAN
      [] OTHER -> {FALSE}

None == "None"
NoneArg == [kind |-> "none"]
NoPoint == [id |-> <<"none", 0>>]

\* Exceptions and call outcomes, all of one shape: the exception type, the
\* ordinal of the failing flush that created it (0: not created by a flush)
\* and the `errors` attribute of SageMakerMetricsWriterException.
Exc(type, n, errors) == [type |-> type, n |-> n, errors |-> errors]
NoException == Exc(None, 0, <<>>)
Returned == Exc("returned", 0, <<>>)
NotCalled == Exc("not called", 0, <<>>)

VARIABLES
    scenario,          \* which client program runs (fixed at Init)
    raise_on_close,    \* self.raise_on_close (constructor argument)
    queue,             \* contents of the queue.Queue object
    work_queue,        \* self._work_queue: "queue" or None
    closed,            \* self._closed
    should_terminate,  \* self._should_terminate
    last_exception,    \* self._last_exception
    wpc,               \* publisher thread: position in _publish_loop
    items,             \* publisher thread: local list `items`
    wi,                \* publisher thread: index i of the drain loop
    tpc,               \* caller threads: position
    pending,           \* caller threads: the _RawMetricData being put
    res,               \* caller threads: outcome of the last finished call
    nlog,              \* caller threads: log_metric calls made with valid arguments
    nbad,              \* caller threads: log_metric calls made with invalid arguments
    nclose,            \* caller threads: close() calls made
    inwith,            \* caller threads: position w.r.t. a `with writer:` statement
    in_flight,         \* sink: MetricData of the batch_put_metrics call in progress
    calls,             \* history: MetricData of all batch_put_metrics calls, concatenated
    response,          \* history: outcome of the latest finished batch_put_metrics call
    nfail,             \* history: number of failing batch_put_metrics calls
    sink_clean,        \* history: every call so far returned without per-item errors
    ncalls,            \* history: batch_put_metrics calls of the burst scenario, up to MaxCounted
    recorded,          \* history: the exception most recently stored by the publisher
    close_called,      \* history: some close() has been entered
    open_closes,       \* history: close() calls that found _closed False (line 166)
    early,             \* history: ids of points whose log_metric returned before any close()
    blockpts,          \* history: ids of points logged inside a with block
    close_returned,    \* history: a close() that found the writer open has returned or raised
    timed_out          \* history: a join() gave up on a publisher that was still running

\* SageMakerFileMetricsWriter and the file system it writes to.
VARIABLES
    f_file,            \* self._file: None or "handle", the file object
    f_closed,          \* self._closed
    f_buffer,          \* the file object: text written but not yet in the file
    f_exists,          \* file system: a file exists at the metrics file path
    f_disk,            \* file system: the contents of that file
    f_res,             \* outcome of the last finished call
    f_nlog,            \* log_metric calls made with valid arguments
    f_nbad,            \* log_metric calls made with invalid arguments
    f_nclose,          \* close() calls made
    f_opens,           \* history: open() calls made
    f_prior,           \* history: the contents of the file at construction
    f_logged           \* history: records whose log_metric has returned

\* The schema mapper (_base_types.ApiObject and Record).
VARIABLES
    m_attrs,           \* the attributes given to the constructors of the object and the record
    m_boto,            \* result of to_boto on the object, None before
    m_back,            \* result of from_boto on that result, None before
    m_record,          \* the record: vars(self)
    m_requests         \* history: the calls made on the record's client

\* Record._list, a generator, and its consumer.
VARIABLES
    l_next_token,      \* local next_token
    l_list_items,      \* items of the current page not yet yielded
    l_pc,              \* position: "loop" (lines 104-111 or 114), "yield" (113), "done"
    l_requests,        \* history: the keyword arguments of the calls of the list method
    l_responses,       \* history: the responses to them
    l_yielded          \* history: what the generator has yielded

\* Tracker, its trial component, its artifact uploader and its lineage tracker.
VARIABLES
    t_in_sagemaker_job,  \* self._in_sagemaker_job
    t_start_time,        \* trial_component.start_time
    t_end_time,          \* trial_component.end_time
    t_status,            \* trial_component.status
    t_input_artifacts,   \* trial_component.input_artifacts: name -> artifact
    t_output_artifacts,  \* trial_component.output_artifacts: name -> artifact
    t_tracker_times,     \* <<self._start_time, self._end_time>>
    t_uploads,           \* history: the file paths given to upload_artifact
    t_artifacts,         \* _lineage_artifact_tracker.artifacts
    t_saved,             \* history: what the save() calls of close() sent, None before
    t_pc,                \* the with statement: "created", "entered", "exited"
    t_exc,               \* the exc_value given to __exit__, None before
    t_call,              \* the method called last, None before
    t_res,               \* outcome of the last finished call
    t_clock,             \* datetime.now()
    t_nlog               \* log calls made

\* Experiment.delete_all / Trial.delete_all and the service they delete from.
VARIABLES
    d_cls,               \* the class of self: "Experiment" or "Trial"
    d_action,            \* the argument of delete_all
    d_trials,            \* service: the trials listed, each with its trial components
    d_exists,            \* service: the resource named by self exists
    d_failing,           \* service: list calls that will still fail
    d_pc,                \* position: "idle", "loop" (line 261), "returned", "raised"
    d_delete_attempt_count,
    d_last_exception,
    d_calls,             \* history: the calls made on the client
    d_res,               \* outcome of delete_all
    d_listed,            \* history: the trials of the service when delete_all was called
    d_passes             \* history: how each pass ended, NoException or the exception

writerVars == <<scenario, raise_on_close, queue, work_queue, closed, should_terminate,
                last_exception, wpc, items, wi, tpc, pending, res, nlog, nbad, nclose,
                inwith, in_flight, calls, response, nfail, sink_clean, ncalls, recorded,
                close_called, open_closes, early, blockpts, close_returned, timed_out>>
fileVars == <<f_file, f_closed, f_buffer, f_exists, f_disk, f_res, f_nlog, f_nbad,
              f_nclose, f_opens, f_prior, f_logged>>
mapperVars == <<m_attrs, m_boto, m_back, m_record, m_requests>>
\* The variables of the components other than SageMakerMetricsWriter, and
\* those outside each of the other components.
listVars == <<l_next_token, l_list_items, l_pc, l_requests, l_responses, l_yielded>>
trackerVars == <<t_in_sagemaker_job, t_start_time, t_end_time, t_status, t_input_artifacts,
                 t_output_artifacts, t_tracker_times, t_uploads, t_artifacts, t_saved,
                 t_pc, t_exc, t_call, t_res, t_clock, t_nlog>>
deleteVars == <<d_cls, d_action, d_trials, d_exists, d_failing, d_pc,
                d_delete_attempt_count, d_last_exception, d_calls, d_res, d_listed, d_passes>>
elsewhere == <<fileVars, mapperVars, listVars, trackerVars, deleteVars>>
outsideFile == <<writerVars, mapperVars, listVars, trackerVars, deleteVars>>
outsideMapper == <<writerVars, fileVars, listVars, trackerVars, deleteVars>>
outsideList == <<writerVars, fileVars, mapperVars, trackerVars, deleteVars>>
outsideTracker == <<writerVars, fileVars, mapperVars, listVars, deleteVars>>
outsideDelete == <<writerVars, fileVars, mapperVars, listVars, trackerVars>>
vars == <<writerVars, elsewhere>>

configVars == <<scenario, raise_on_close>>
workerVars == <<wpc, items, wi, should_terminate>>
sinkVars == <<in_flight, calls, response, nfail, sink_clean, ncalls>>
counterVars == <<nlog, nbad, nclose>>
closeHist == <<close_called, open_closes, close_returned, timed_out>>

\* ------------------------------------------------------------ data points
\* utcnow() and the local UTC offset at the time of the calls.
Now == 100
LocalOffset == 2

\* Slip of line 211: the value is stored without float().
FloatLenient(x) ==
    [ok |-> TRUE, v |-> IF x.kind \in {"int", "float"} THEN x.v ELSE 0, exc |-> None]

\* float(x)
Float(x) ==
    IF x.kind \in {"int", "float"} THEN [ok |-> TRUE, v |-> x.v, exc |-> None]
    ELSE IF x.kind = "text" THEN [ok |-> FALSE, v |-> 0, exc |-> "ValueError"]
    ELSE [ok |-> FALSE, v |-> 0, exc |-> "TypeError"]

\* The timestamp normalisation of _RawMetricData.__init__ (lines 194-209).
Normalise(timestamp) ==
    IF timestamp.kind = "none"
    THEN [ok |-> TRUE, exc |-> None, t |-> [wall |-> Now, tz |-> "naive"]]
    ELSE IF timestamp.kind = "datetime"
    THEN LET offset == IF timestamp.tz = "naive" THEN LocalOffset ELSE timestamp.offset
         IN  [ok |-> TRUE, exc |-> None, t |-> [wall |-> timestamp.wall - offset, tz |-> "utc"]]
    ELSE LET f == Float(timestamp)
         IN  IF f.ok THEN [ok |-> TRUE, exc |-> None, t |-> [wall |-> f.v, tz |-> "utc"]]
             ELSE [ok |-> FALSE, exc |-> f.exc, t |-> [wall |-> 0, tz |-> "utc"]]

\* datetime.timestamp(): a naive datetime is read as local time.
EpochOf(t) == IF t.tz = "naive" THEN t.wall - LocalOffset ELSE t.wall

Failed(type) == [ok |-> FALSE, exc |-> type, rec |-> NoPoint]

\* _RawMetricData.__init__: the object is modelled by its identity `id` and
\* its __dict__; IterationNumber is a key of it only when it was passed.
RawMetricData(id, metric_name, value, timestamp, iteration_number, record_type) ==
    LET ts == Normalise(timestamp)
        fv == Float(value)
    IN  IF ~ts.ok THEN Failed(ts.exc)
        ELSE IF record_type \notin {"File", "API"} THEN Failed("ValueError")
        ELSE IF ~fv.ok THEN Failed(fv.exc)
        ELSE LET stamp == IF record_type = "File" THEN [epoch |-> EpochOf(ts.t)] ELSE ts.t
                 base == [id |-> id, MetricName |-> metric_name, Value |-> fv.v,
                          Timestamp |-> stamp]
             IN  IF iteration_number.kind = "none"
                 THEN [ok |-> TRUE, exc |-> None, rec |-> base]
                 ELSE IF iteration_number.kind # "int" THEN Failed("AssertionError")
                 ELSE [ok |-> TRUE, exc |-> None,
                       rec |-> base @@ [IterationNumber |-> iteration_number.v]]

\* _RawMetricData.to_record returns self.__dict__; the pill, an int, has no
\* such method.
CanRecord(item) == item # terminate_message
to_record(item) == item

\* Epoch timestamps that t2 passes: its odd calls one far in the past, its
\* even calls one far in the future.
StaleTimestamp(k) == [kind |-> "int", v |-> IF k % 2 = 1 THEN 0 ELSE 2 * Now]

\* Arguments of the log_metric calls of thread t that _RawMetricData accepts:
\* the k-th such call logs value k; t1 passes no timestamp, t2 passes an
\* iteration number and an explicit epoch timestamp.  Invalid calls pass a
\* non-numeric value, a non-numeric timestamp or a float iteration number.
GoodArgs(t, k) ==
    { [value |-> [kind |-> "int", v |-> k],
       timestamp |-> IF t = "t1" THEN NoneArg ELSE StaleTimestamp(k),
       iteration_number |-> IF t = "t1" THEN NoneArg ELSE [kind |-> "int", v |-> k]] }
BadArgs ==
    { [value |-> [kind |-> "text"], timestamp |-> NoneArg, iteration_number |-> NoneArg],
      [value |-> [kind |-> "int", v |-> 1], timestamp |-> [kind |-> "text"],
       iteration_number |-> NoneArg],
      [value |-> [kind |-> "int", v |-> 1], timestamp |-> NoneArg,
       iteration_number |-> [kind |-> "float", v |-> 1]] }

ValidationErrors == {"ValueError", "TypeError", "AssertionError"}

\* ------------------------------------------------------------ file text
\* Text is a sequence of tokens: braces, the "key": value pairs of a JSON
\* object (a string or a number as value) and the newline.
Tok(key, str, num) == [key |-> key, str |-> str, num |-> num]
Newline == Tok("\\n", "", 0)

\* json.dumps(record), record the __dict__ of a _RawMetricData built with
\* record_type='File': the keys in the order in which __init__ assigned them.
json_dumps(record) ==
    <<Tok("{", "", 0),
      Tok("Timestamp", "", record.Timestamp.epoch),
      Tok("MetricName", record.MetricName, 0),
      Tok("Value", "", record.Value)>>
    \o (IF "IterationNumber" \in DOMAIN record
        THEN <<Tok("IterationNumber", "", record.IterationNumber)>>
        ELSE <<>>)
    \o <<Tok("}", "", 0)>>

\* What an earlier writer of the same path left in the metrics file.
PriorText == <<Tok("{", "", 0), Tok("}", "", 0), Newline>>

\* The state after SageMakerFileMetricsWriter.__init__; `exists`: a metrics
\* file is already there.
FileInit(exists) ==
    /\ f_file = None
    /\ f_closed = FALSE
    /\ f_buffer = <<>>
    /\ f_exists = exists
    /\ f_disk = IF exists THEN PriorText ELSE <<>>
    /\ f_res = NotCalled
    /\ f_nlog = 0
    /\ f_nbad = 0
    /\ f_nclose = 0
    /\ f_opens = 0
    /\ f_prior = IF exists THEN PriorText ELSE <<>>
    /\ f_logged = <<>>

\* ----------------------------------------------------- the schema mapper
\* No object has been converted, no record constructed.
MapperUnused ==
    /\ m_attrs = <<>>
    /\ m_boto = NoneArg
    /\ m_back = NoneArg
    /\ m_record = <<>>
    /\ m_requests = <<>>

\* _list at its first line: next_token = None.
ListInit ==
    /\ l_next_token = None
    /\ l_list_items = <<>>
    /\ l_pc = "loop"
    /\ l_requests = <<>>
    /\ l_responses = <<>>
    /\ l_yielded = <<>>

\* ------------------------------------------------------------ the tracker
\* The limit of lines 256, 276, 331 and 356.
ArtifactLimit == 30

\* api_types.TrialComponentArtifact(value, media_type).
TrialComponentArtifact(value, media_type) == [value |-> value, media_type |-> media_type]

\* A trial component that already has n artifacts, named 1..n.
Artifacts(n) == [name \in 1..n |-> TrialComponentArtifact("s3", "text/text")]

\* The state after Tracker.__init__ (and line 157 of load) on a trial
\* component with n_in input and n_out output artifacts.
TrackerInit(in_job, n_in, n_out) ==
    /\ t_in_sagemaker_job = in_job
    /\ t_start_time = NoneArg
    /\ t_end_time = NoneArg
    /\ t_status = NoneArg
    /\ t_input_artifacts = Artifacts(n_in)
    /\ t_output_artifacts = Artifacts(n_out)
    /\ t_tracker_times = <<NoneArg, NoneArg>>
    /\ t_uploads = <<>>
    /\ t_artifacts = <<>>
    /\ t_saved = NoneArg
    /\ t_pc = "created"
    /\ t_exc = NoneArg
    /\ t_call = None
    /\ t_res = NotCalled
    /\ t_clock = 1
    /\ t_nlog = 0

TrackerUnused == TrackerInit(FALSE, 0, 0)

\* ------------------------------------------------------------- delete_all
\* No delete_all has been called; the service holds the given trials.
DeleteInit(cls, action, trials, failing) ==
    /\ d_cls = cls
    /\ d_action = action
    /\ d_trials = trials
    /\ d_exists = TRUE
    /\ d_failing = failing
    /\ d_pc = "idle"
    /\ d_delete_attempt_count = 0
    /\ d_last_exception = None
    /\ d_calls = <<>>
    /\ d_res = NotCalled
    /\ d_listed = trials
    /\ d_passes = <<>>

DeleteUnused == DeleteInit("Experiment", "--force", <<>>, 0)

\* ------------------------------------------------------------------ Init
\* The state after SageMakerMetricsWriter.__init__: the publisher thread is
\* started and blocks in the first get().
Init ==
    /\ scenario \in Scenarios
    /\ raise_on_close \in RaiseOnCloseOf(scenario)
    /\ queue = <<>>
    /\ work_queue = "queue"
    /\ closed = FALSE
    /\ should_terminate = FALSE
    /\ last_exception = NoException
    /\ wpc = "get"
    /\ items = <<>>
    /\ wi = 0
    /\ tpc = [t \in Threads |-> "idle"]
    /\ pending = [t \in Threads |-> NoPoint]
    /\ res = [t \in Threads |-> NotCalled]
    /\ nlog = [t \in Threads |-> 0]
    /\ nbad = [t \in Threads |-> 0]
    /\ nclose = [t \in Threads |-> 0]
    /\ inwith = [t \in Threads |-> "out"]
    /\ in_flight = <<>>
    /\ calls = <<>>
    /\ response = [kind |-> "none"]
    /\ nfail = 0
    /\ sink_clean = TRUE
    /\ ncalls = 0
    /\ recorded = NoException
    /\ close_called = FALSE
    /\ open_closes = 0
    /\ early = {}
    /\ blockpts = {}
    /\ close_returned = FALSE
    /\ timed_out = FALSE
    /\ FileInit(FALSE)
    /\ MapperUnused
    /\ ListInit
    /\ TrackerUnused
    /\ DeleteUnused

\* ------------------------------------------------------- caller threads
ClosedWriterError == Exc("SageMakerMetricsWriterException", 0, <<>>)
EnteredSelf == Exc("self", 0, <<>>)

\* A thread that is not inside a call and has no exception propagating out
\* of a with block.
Idle(t) == tpc[t] = "idle" /\ inwith[t] # "raised"

\* Slip of line 155: the _RawMetricData is built before self._work_queue is
\* looked at, so that a closed writer reports bad arguments first.
LogRaisesArgsFirst(r) ==
    IF ~r.ok THEN Exc(r.exc, 0, <<>>)
    ELSE IF work_queue = None
    THEN (IF closed THEN ClosedWriterError ELSE Exc("AttributeError", 0, <<>>))
    ELSE NoException

\* What log_metric raises before the put, NoException when it reaches the
\* put: `self._work_queue.put` is evaluated first (an AttributeError when
\* _work_queue is None, turned into the closed-writer error when _closed),
\* then the _RawMetricData `r` is constructed (a validation error propagates).
LogRaises(r) ==
    IF work_queue = None
    THEN (IF closed THEN ClosedWriterError ELSE Exc("AttributeError", 0, <<>>))
    ELSE IF ~r.ok THEN Exc(r.exc, 0, <<>>)
    ELSE NoException

\* The _RawMetricData that log_metric(**a) of thread t constructs.
PointOf(t, a) ==
    RawMetricData(<<t, nlog[t] + 1>>, "m", a.value, a.timestamp, a.iteration_number, "API")

\* log_metric, up to the put; put() is entered on the queue object that was
\* read from self._work_queue.
LogMetric(t, a) ==
    LET r == PointOf(t, a)
        raised == LogRaises(r)
    IN  /\ Idle(t)
        /\ scenario = "burst" => inwith[t] = "in"
        /\ IF r.ok THEN nlog[t] < LogsOf(scenario, t) ELSE nbad[t] < BadOf(scenario, t)
        /\ nlog' = IF r.ok THEN [nlog EXCEPT ![t] = @ + 1] ELSE nlog
        /\ nbad' = IF r.ok THEN nbad ELSE [nbad EXCEPT ![t] = @ + 1]
        /\ IF raised # NoException
           THEN /\ res' = [res EXCEPT ![t] = raised]
                /\ inwith' = [inwith EXCEPT ![t] = IF @ = "in" THEN "raised" ELSE @]
                /\ UNCHANGED <<tpc, pending>>
           ELSE /\ tpc' = [tpc EXCEPT ![t] = "put"]
                /\ pending' = [pending EXCEPT ![t] = r.rec]
                /\ UNCHANGED <<res, inwith>>
        /\ UNCHANGED <<elsewhere, configVars, queue, work_queue, closed, last_exception, workerVars,
                       nclose, sinkVars, recorded, closeHist, early, blockpts>>

\* Slip of line 101/155: a queue without the bound, so that put never blocks.
LogPutUnbounded(t) ==
    /\ tpc[t] = "put"
    /\ queue' = Append(queue, pending[t])
    /\ tpc' = [tpc EXCEPT ![t] = "idle"]
    /\ res' = [res EXCEPT ![t] = Returned]
    /\ pending' = [pending EXCEPT ![t] = NoPoint]
    /\ early' = IF close_called THEN early ELSE early \cup {pending[t].id}
    /\ blockpts' = IF inwith[t] = "in" THEN blockpts \cup {pending[t].id} ELSE blockpts
    /\ UNCHANGED <<elsewhere, configVars, work_queue, closed, last_exception, workerVars, counterVars,
                   inwith, sinkVars, recorded, closeHist>>

\* queue.Queue.put(item) with maxsize = QUEUE_SIZE: blocks while the queue
\* is full, then appends at the tail; log_metric returns.
LogPut(t) ==
    /\ tpc[t] = "put"
    /\ Len(queue) < QUEUE_SIZE
    /\ queue' = Append(queue, pending[t])
    /\ tpc' = [tpc EXCEPT ![t] = "idle"]
    /\ res' = [res EXCEPT ![t] = Returned]
    /\ pending' = [pending EXCEPT ![t] = NoPoint]
    /\ early' = IF close_called THEN early ELSE early \cup {pending[t].id}
    /\ blockpts' = IF inwith[t] = "in" THEN blockpts \cup {pending[t].id} ELSE blockpts
    /\ UNCHANGED <<elsewhere, configVars, work_queue, closed, last_exception, workerVars, counterVars,
                   inwith, sinkVars, recorded, closeHist>>

\* A call of the thread finishes with `outcome`.  An exception that was
\* propagating out of a with block keeps propagating when __exit__ returns
\* normally (__exit__ returns None).
Finish(t, outcome) ==
    /\ tpc' = [tpc EXCEPT ![t] = "idle"]
    /\ res' = [res EXCEPT ![t] =
                 IF outcome = Returned /\ inwith[t] = "exit_raised" THEN @ ELSE outcome]
    /\ inwith' = [inwith EXCEPT ![t] = IF @ \in {"exit", "exit_raised"} THEN "after" ELSE @]

\* Slip of line 166: close() does not look at _closed.
AlreadyClosedNever == FALSE

\* close(), line 166: `if not self._closed` fails.
AlreadyClosed == closed

\* close() is entered.
CloseEnter(t) ==
    /\ nclose' = [nclose EXCEPT ![t] = @ + 1]
    /\ close_called' = TRUE
    /\ open_closes' = IF AlreadyClosed THEN open_closes ELSE open_closes + 1
    /\ IF AlreadyClosed
       THEN /\ tpc' = [tpc EXCEPT ![t] = "idle"]
            /\ res' = [res EXCEPT ![t] = Returned]
       ELSE /\ tpc' = [tpc EXCEPT ![t] = "c_ref"]
            /\ UNCHANGED res
    /\ UNCHANGED <<elsewhere, configVars, queue, work_queue, closed, last_exception, workerVars,
                   pending, nlog, nbad, sinkVars, recorded, early, blockpts,
                   close_returned, timed_out>>

CanClose(t) == nclose[t] < ClosesOf(scenario, t)

Close(t) ==
    /\ Idle(t)
    /\ CanClose(t)
    /\ UNCHANGED inwith
    /\ CloseEnter(t)

\* __enter__ returns self.
Enter(t) ==
    /\ Idle(t)
    /\ WithOf(scenario, t)
    /\ inwith[t] = "out"
    /\ inwith' = [inwith EXCEPT ![t] = "in"]
    /\ res' = [res EXCEPT ![t] = EnteredSelf]
    /\ UNCHANGED <<elsewhere, configVars, queue, work_queue, closed, last_exception, workerVars,
                   tpc, pending, counterVars, sinkVars, recorded, closeHist, early,
                   blockpts>>

\* Slip of __exit__: close() only when the block ended without an exception.
ExitRunsCloseOnSuccess(how) == how = "in"

\* __exit__(type, value, traceback) executes self.close(), whatever `type`
\* is: `how` is "in" after a normal end of the block, "raised" when an
\* exception is propagating.
ExitRunsClose(how) == TRUE

\* The with statement ends: __exit__ runs.  A closed writer makes close()
\* return at once, and the with statement is over.
Exit(t) ==
    LET runs == ExitRunsClose(inwith[t])
        over == ~runs \/ AlreadyClosed
    IN  /\ tpc[t] = "idle"
        /\ inwith[t] \in {"in", "raised"}
        /\ scenario = "burst" => nlog[t] = LogsOf(scenario, t)
        /\ inwith' = [inwith EXCEPT ![t] =
                        IF over THEN "after" ELSE IF @ = "raised" THEN "exit_raised" ELSE "exit"]
        /\ nclose' = IF runs THEN [nclose EXCEPT ![t] = @ + 1] ELSE nclose
        /\ close_called' = (close_called \/ runs)
        /\ open_closes' = IF over THEN open_closes ELSE open_closes + 1
        /\ IF over
           THEN /\ tpc' = [tpc EXCEPT ![t] = "idle"]
                /\ res' = [res EXCEPT ![t] = IF inwith[t] = "raised" THEN @ ELSE Returned]
           ELSE /\ tpc' = [tpc EXCEPT ![t] = "c_ref"]
                /\ UNCHANGED res
        /\ UNCHANGED <<elsewhere, configVars, queue, work_queue, closed, last_exception, workerVars,
                       pending, nlog, nbad, sinkVars, recorded, early, blockpts,
                       close_returned, timed_out>>

\* close(), line 167: `self._work_queue.put` is evaluated.
CloseRef(t) ==
    /\ tpc[t] = "c_ref"
    /\ IF work_queue = None
       THEN /\ Finish(t, Exc("AttributeError", 0, <<>>))
            /\ close_returned' = TRUE
       ELSE /\ tpc' = [tpc EXCEPT ![t] = "c_put"]
            /\ UNCHANGED <<res, inwith, close_returned>>
    /\ UNCHANGED <<elsewhere, configVars, queue, work_queue, closed, last_exception, workerVars,
                   pending, counterVars, sinkVars, recorded, early, blockpts,
                   close_called, open_closes, timed_out>>

\* close(), line 167: put(self._terminate_message), blocking while full.
ClosePut(t) ==
    /\ tpc[t] = "c_put"
    /\ Len(queue) < QUEUE_SIZE
    /\ queue' = Append(queue, terminate_message)
    /\ tpc' = [tpc EXCEPT ![t] = "c_join"]
    /\ UNCHANGED <<elsewhere, configVars, work_queue, closed, last_exception, workerVars, pending,
                   res, counterVars, inwith, sinkVars, recorded, closeHist, early, blockpts>>

\* close(), line 168: join(timeout=500) returns when the publisher thread
\* has ended, or after 500 seconds.  The publisher spends unbounded time only
\* inside batch_put_metrics, so the timeout can expire only there.
CloseJoin(t) ==
    /\ tpc[t] = "c_join"
    /\ wpc \in {"done", "call", "hung"}
    /\ timed_out' = (timed_out \/ wpc # "done")
    /\ tpc' = [tpc EXCEPT ![t] = "c_closed"]
    /\ UNCHANGED <<elsewhere, configVars, queue, work_queue, closed, last_exception, workerVars,
                   pending, res, counterVars, inwith, sinkVars, recorded, close_called,
                   open_closes, close_returned, early, blockpts>>

\* close(), line 169: self._closed = True.
CloseSetClosed(t) ==
    /\ tpc[t] = "c_closed"
    /\ closed' = TRUE
    /\ tpc' = [tpc EXCEPT ![t] = "c_none"]
    /\ UNCHANGED <<elsewhere, configVars, queue, work_queue, last_exception, workerVars, pending,
                   res, counterVars, inwith, sinkVars, recorded, closeHist, early, blockpts>>

\* close(), line 170: self._work_queue = None.
CloseSetNone(t) ==
    /\ tpc[t] = "c_none"
    /\ work_queue' = None
    /\ tpc' = [tpc EXCEPT ![t] = "c_check"]
    /\ UNCHANGED <<elsewhere, configVars, queue, closed, last_exception, workerVars, pending,
                   res, counterVars, inwith, sinkVars, recorded, closeHist, early, blockpts>>

\* has_error
has_error == last_exception # NoException
\* last_error
last_error == last_exception

\* close(), line 171: `if self.raise_on_close and self.has_error`.
CloseCheck(t) ==
    /\ tpc[t] = "c_check"
    /\ IF raise_on_close /\ has_error
       THEN /\ tpc' = [tpc EXCEPT ![t] = "c_raise"]
            /\ UNCHANGED <<res, inwith, close_returned>>
       ELSE /\ Finish(t, Returned)
            /\ close_returned' = TRUE
    /\ UNCHANGED <<elsewhere, configVars, queue, work_queue, closed, last_exception, workerVars,
                   pending, counterVars, sinkVars, recorded, early, blockpts,
                   close_called, open_closes, timed_out>>

\* close(), line 172: `raise self.last_error`.
CloseRaise(t) ==
    /\ tpc[t] = "c_raise"
    /\ Finish(t, last_error)
    /\ close_returned' = TRUE
    /\ UNCHANGED <<elsewhere, configVars, queue, work_queue, closed, last_exception, workerVars,
                   pending, counterVars, sinkVars, recorded, early, blockpts,
                   close_called, open_closes, timed_out>>

\* ------------------------------------------------------ publisher thread
\* The calls that the history variable ncalls counts.
Counted == scenario = "burst" /\ ncalls < MaxCounted

\* list.remove(x): drops the first element equal to x.
RECURSIVE Remove(_, _)
Remove(list, x) ==
    IF list = <<>> THEN <<>>
    ELSE IF Head(list) = x THEN Tail(list)
    ELSE <<Head(list)>> \o Remove(Tail(list), x)

\* `x in list`
Contains(list, x) == \E j \in 1..Len(list) : list[j] = x

\* Slip of lines 129-131: only the first error is kept.
CaughtFirstOnly(ex) ==
    /\ last_exception' = IF last_exception = NoException THEN ex ELSE last_exception
    /\ recorded' = ex
    /\ wpc' = "loop"

\* Slip of lines 129-131: the exception is stored and ends the thread.
CaughtEndsThread(ex) ==
    /\ last_exception' = ex
    /\ recorded' = ex
    /\ wpc' = "done"

\* An exception raised inside _publish_metrics is caught and stored
\* (lines 130-131); _publish_loop goes on.
Caught(ex) ==
    /\ last_exception' = ex
    /\ recorded' = ex
    /\ wpc' = "loop"

QueueGone == Exc("AttributeError", 0, <<>>)

\* Slips of lines 140-143: the batch that holds the pill is thrown away; the
\* pill is removed by a method that does not keep the order of the rest.
RECURSIVE Reverse(_)
Reverse(list) == IF list = <<>> THEN <<>> ELSE Append(Reverse(Tail(list)), Head(list))
ScannedDropsBatch(list) == IF Contains(list, terminate_message) THEN <<>> ELSE list
ScannedReorders(list) ==
    IF Contains(list, terminate_message) THEN Reverse(Remove(list, terminate_message)) ELSE list

\* _get_items_from_queue, lines 140-143, on the drained list.
Scanned(list) ==
    IF Contains(list, terminate_message) THEN Remove(list, terminate_message) ELSE list

\* _get_items_from_queue, line 134: items = [self._work_queue.get()],
\* blocking while the queue is empty.
WorkerGet ==
    /\ wpc = "get"
    /\ IF work_queue = None
       THEN /\ Caught(QueueGone)
            /\ UNCHANGED <<queue, items, wi>>
       ELSE /\ queue # <<>>
            /\ items' = <<Head(queue)>>
            /\ queue' = Tail(queue)
            /\ wi' = 0
            /\ wpc' = "drain"
            /\ UNCHANGED <<last_exception, recorded>>
    /\ UNCHANGED <<elsewhere, configVars, work_queue, closed, should_terminate, tpc, pending, res,
                   counterVars, inwith, sinkVars, closeHist, early, blockpts>>

\* Slip of line 135: `for i in range(BATCH_MAX_SIZE)`, one get_nowait() more.
WorkerDrainOneMore ==
    /\ wpc = "drain"
    /\ IF work_queue = None
       THEN /\ Caught(QueueGone)
            /\ items' = <<>>
            /\ wi' = 0
            /\ UNCHANGED <<queue, should_terminate>>
       ELSE LET got == IF queue = <<>> THEN items ELSE Append(items, Head(queue))
                over == queue = <<>> \/ wi + 1 >= BATCH_MAX_SIZE
            IN  /\ queue' = IF queue = <<>> THEN queue ELSE Tail(queue)
                /\ items' = IF over THEN Scanned(got) ELSE got
                /\ should_terminate' =
                       IF over THEN Contains(got, terminate_message) ELSE should_terminate
                /\ wi' = IF over THEN 0 ELSE wi + 1
                /\ wpc' = IF over THEN "publish" ELSE "drain"
                /\ UNCHANGED <<last_exception, recorded>>
    /\ UNCHANGED <<elsewhere, configVars, work_queue, closed, tpc, pending, res,
                   counterVars, inwith, sinkVars, closeHist, early, blockpts>>

\* _get_items_from_queue, lines 135-143: one iteration of
\* `for i in range(BATCH_MAX_SIZE - 1)` with get_nowait(); when the loop ends
\* (queue.Empty, or the last iteration) the pill is looked for and removed.
WorkerDrain ==
    /\ wpc = "drain"
    /\ IF work_queue = None
       THEN /\ Caught(QueueGone)
            /\ items' = <<>>
            /\ wi' = 0
            /\ UNCHANGED <<queue, should_terminate>>
       ELSE LET got == IF queue = <<>> THEN items ELSE Append(items, Head(queue))
                over == queue = <<>> \/ wi + 1 >= BATCH_MAX_SIZE - 1
            IN  /\ queue' = IF queue = <<>> THEN queue ELSE Tail(queue)
                /\ items' = IF over THEN Scanned(got) ELSE got
                /\ should_terminate' =
                       IF over THEN Contains(got, terminate_message) ELSE should_terminate
                /\ wi' = IF over THEN 0 ELSE wi + 1
                /\ wpc' = IF over THEN "publish" ELSE "drain"
                /\ UNCHANGED <<last_exception, recorded>>
    /\ UNCHANGED <<elsewhere, configVars, work_queue, closed, tpc, pending, res,
                   counterVars, inwith, sinkVars, closeHist, early, blockpts>>

\* Slip of line 122: the request is handed to a background sender and
\* _publish_metrics goes on without waiting for the response.
WorkerPublishNoWait ==
    /\ wpc = "publish"
    /\ IF items = <<>>
       THEN /\ wpc' = "loop"
            /\ UNCHANGED <<in_flight, calls, ncalls, last_exception, recorded, items>>
       ELSE IF \E j \in 1..Len(items) : ~CanRecord(items[j])
       THEN /\ Caught(Exc("AttributeError", 0, <<>>))
            /\ items' = <<>>
            /\ UNCHANGED <<in_flight, calls, ncalls>>
       ELSE LET metric_data == [j \in 1..Len(items) |-> to_record(items[j])]
            IN  /\ in_flight' = metric_data
                /\ calls' = calls \o metric_data
                /\ ncalls' = IF Counted THEN ncalls + 1 ELSE ncalls
                /\ wpc' = "loop"
                /\ items' = <<>>
                /\ UNCHANGED <<last_exception, recorded>>
    /\ UNCHANGED <<elsewhere, configVars, queue, work_queue, closed, wi,
                   should_terminate, tpc, pending, res, counterVars, inwith, response,
                   nfail, sink_clean, closeHist, early, blockpts>>

\* _publish_metrics, lines 117-122: `if items:` the items are converted and
\* handed to batch_put_metrics.  A pill left in the list (remove() takes out
\* one) makes item.to_record() raise AttributeError before the call.
WorkerPublish ==
    /\ wpc = "publish"
    /\ IF items = <<>>
       THEN /\ wpc' = "loop"
            /\ UNCHANGED <<in_flight, calls, ncalls, last_exception, recorded, items>>
       ELSE IF \E j \in 1..Len(items) : ~CanRecord(items[j])
       THEN /\ Caught(Exc("AttributeError", 0, <<>>))
            /\ items' = <<>>
            /\ UNCHANGED <<in_flight, calls, ncalls>>
       ELSE LET metric_data == [j \in 1..Len(items) |-> to_record(items[j])]
            IN  /\ in_flight' = metric_data
                /\ calls' = calls \o metric_data
                /\ ncalls' = IF Counted THEN ncalls + 1 ELSE ncalls
                /\ wpc' = "call"
                /\ UNCHANGED <<last_exception, recorded, items>>
    /\ UNCHANGED <<elsewhere, configVars, queue, work_queue, closed, wi,
                   should_terminate, tpc, pending, res, counterVars, inwith, response,
                   nfail, sink_clean, closeHist, early, blockpts>>

\* ------------------------------------------------------------- the sink
\* One entry of the 'Errors' list of a BatchPutMetrics response.
ErrorEntry(code, index) == [Code |-> code, Message |-> "Bah", MetricIndex |-> index]

\* What batch_put_metrics can do with a batch of n records: return an empty
\* error list, return a response without the 'Errors' key, report per-item
\* errors for records of the batch, or raise.
Responses(n) ==
    { [kind |-> "return", body |-> [Errors |-> <<>>]] }
    \cup (IF nfail < FailuresOf(scenario)
          THEN { [kind |-> "raise", exc |-> "ClientError"] }
          ELSE {})
    \cup (IF nfail < FailuresOf(scenario) /\ scenario = "lifecycle"
          THEN { [kind |-> "return", body |-> [ResponseMetadata |-> "ok"]],
                 [kind |-> "return",
                  body |-> [Errors |-> IF n = 1 THEN <<ErrorEntry("InternalError", 0)>>
                                       ELSE <<ErrorEntry("ValidationError", n - 1),
                                              ErrorEntry("InternalError", 0)>>]] }
          ELSE {})

\* The name conversion of _boto_functions.from_boto for the keys of an
\* error entry (UpperCamelCase to lower_snake_case).
to_snake_case(name) ==
    CASE name = "Code" -> "code"
      [] name = "Message" -> "message"
      [] name = "MetricIndex" -> "metric_index"
      [] OTHER -> name

from_boto(boto_dict) ==
    [m \in {to_snake_case(k) : k \in DOMAIN boto_dict} |->
        boto_dict[CHOOSE k \in DOMAIN boto_dict : to_snake_case(k) = m]]

\* api_types.BatchPutMetricsError.from_boto(error)
BatchPutMetricsError(error) ==
    from_boto(error) @@ [code |-> None, message |-> None, metric_index |-> None]

\* Slip of line 127: the error is attributed to the first record.
MetricValueFirst(metric_data, metric_index) == metric_data[1]

\* metric_data[error.metric_index] (line 127): Python lists count from 0, and
\* a negative index counts from the end.
MetricValue(metric_data, metric_index) ==
    metric_data[IF metric_index < 0 THEN Len(metric_data) + metric_index + 1
                ELSE metric_index + 1]

\* _publish_metrics, lines 123-131, for the response `resp` to the call with
\* `metric_data`: the exception that is stored, NoException when none is.
PublishOutcome(metric_data, resp, n) ==
    IF resp.kind = "raise" THEN Exc(resp.exc, n, <<>>)
    ELSE IF "Errors" \notin DOMAIN resp.body THEN Exc("KeyError", n, <<>>)
    ELSE LET reported == resp.body.Errors
             parsed == [j \in 1..Len(reported) |-> BatchPutMetricsError(reported[j])]
         IN  IF reported = <<>> THEN NoException
             ELSE IF \E j \in 1..Len(parsed) :
                        parsed[j].metric_index
                            \notin (0 - Len(metric_data))..(Len(metric_data) - 1)
             THEN Exc("IndexError", n, <<>>)
             ELSE Exc("SageMakerMetricsWriterException", n,
                      [j \in 1..Len(parsed) |->
                          parsed[j] @@
                          [metric_value |-> MetricValue(metric_data, parsed[j].metric_index)]])

\* Slip of lines 123-131: a flush without errors resets _last_exception.
WorkerCallReturnClears(resp) ==
    /\ wpc = "call"
    /\ LET metric_data == [j \in 1..Len(items) |-> to_record(items[j])]
           ex == PublishOutcome(metric_data, resp, nfail + 1)
       IN  IF ex = NoException
           THEN /\ wpc' = "loop"
                /\ last_exception' = NoException
                /\ UNCHANGED <<recorded, nfail>>
           ELSE /\ Caught(ex)
                /\ nfail' = nfail + 1
    /\ response' = resp
    /\ sink_clean' = (sink_clean /\ resp.kind = "return"
                               /\ ("Errors" \in DOMAIN resp.body => resp.body.Errors = <<>>))
    /\ in_flight' = <<>>
    /\ items' = <<>>
    /\ UNCHANGED <<elsewhere, configVars, queue, work_queue, closed, wi, should_terminate, tpc,
                   pending, res, counterVars, inwith, calls, ncalls, closeHist, early, blockpts>>

\* batch_put_metrics returns or raises, and _publish_metrics finishes.
WorkerCallReturn(resp) ==
    /\ wpc = "call"
    /\ LET metric_data == [j \in 1..Len(items) |-> to_record(items[j])]
           ex == PublishOutcome(metric_data, resp, nfail + 1)
       IN  IF ex = NoException
           THEN /\ wpc' = "loop"
                /\ UNCHANGED <<last_exception, recorded, nfail>>
           ELSE /\ Caught(ex)
                /\ nfail' = nfail + 1
    /\ response' = resp
    /\ sink_clean' = (sink_clean /\ resp.kind = "return"
                               /\ ("Errors" \in DOMAIN resp.body => resp.body.Errors = <<>>))
    /\ in_flight' = <<>>
    /\ items' = <<>>
    /\ UNCHANGED <<elsewhere, configVars, queue, work_queue, closed, wi, should_terminate, tpc,
                   pending, res, counterVars, inwith, calls, ncalls, closeHist, early, blockpts>>

\* batch_put_metrics never returns.  (A call that has not returned yet is
\* wpc = "call" in every scenario; the hang is final.)
WorkerCallHang ==
    /\ wpc = "call"
    /\ scenario = "burst"
    /\ wpc' = "hung"
    /\ UNCHANGED <<elsewhere, configVars, queue, work_queue, closed, last_exception, items, wi,
                   should_terminate, tpc, pending, res, counterVars, inwith, sinkVars,
                   recorded, closeHist, early, blockpts>>

\* Slip of line 110: _should_terminate is not looked at.
WorkerLoopOn ==
    /\ wpc = "loop"
    /\ wpc' = "get"
    /\ UNCHANGED <<elsewhere, configVars, queue, work_queue, closed, last_exception, items, wi,
                   should_terminate, tpc, pending, res, counterVars, inwith, sinkVars,
                   recorded, closeHist, early, blockpts>>

\* _publish_loop, lines 110-112: return, or sleep and start the next cycle.
WorkerLoop ==
    /\ wpc = "loop"
    /\ wpc' = IF should_terminate THEN "done" ELSE "get"
    /\ UNCHANGED <<elsewhere, configVars, queue, work_queue, closed, last_exception, items, wi,
                   should_terminate, tpc, pending, res, counterVars, inwith, sinkVars,
                   recorded, closeHist, early, blockpts>>

\* ------------------------------------------------------------------ Next
Next ==
    \/ \E t \in Threads : \E a \in GoodArgs(t, nlog[t] + 1) \cup BadArgs : LogMetric(t, a)
    \/ \E t \in Threads : LogPut(t)
    \/ \E t \in Threads : Close(t)
    \/ \E t \in Threads : Enter(t)
    \/ \E t \in Threads : Exit(t)
    \/ \E t \in Threads : CloseRef(t)
    \/ \E t \in Threads : ClosePut(t)
    \/ \E t \in Threads : CloseJoin(t)
    \/ \E t \in Threads : CloseSetClosed(t)
    \/ \E t \in Threads : CloseSetNone(t)
    \/ \E t \in Threads : CloseCheck(t)
    \/ \E t \in Threads : CloseRaise(t)
    \/ WorkerGet
    \/ WorkerDrain
    \/ WorkerPublish
    \/ \E resp \in Responses(Len(in_flight)) : WorkerCallReturn(resp)
    \/ WorkerCallHang
    \/ WorkerLoop

Spec == Init /\ [][Next]_vars

\* ------------------------------------------- SageMakerFileMetricsWriter
\* log_metric calls with valid arguments that the client makes.
MaxFileLogs == 3
\* log_metric calls with invalid arguments.
MaxFileBad == 1
\* close() calls.
MaxFileClose == 2

\* The SageMakerMetricsWriter of a client that uses the file writer only:
\* constructed and left alone.
WriterUnused ==
    /\ scenario = "lifecycle"
    /\ raise_on_close = FALSE
    /\ queue = <<>>
    /\ work_queue = "queue"
    /\ closed = FALSE
    /\ should_terminate = FALSE
    /\ last_exception = NoException
    /\ wpc = "get"
    /\ items = <<>>
    /\ wi = 0
    /\ tpc = [t \in Threads |-> "idle"]
    /\ pending = [t \in Threads |-> NoPoint]
    /\ res = [t \in Threads |-> NotCalled]
    /\ nlog = [t \in Threads |-> 0]
    /\ nbad = [t \in Threads |-> 0]
    /\ nclose = [t \in Threads |-> 0]
    /\ inwith = [t \in Threads |-> "out"]
    /\ in_flight = <<>>
    /\ calls = <<>>
    /\ response = [kind |-> "none"]
    /\ nfail = 0
    /\ sink_clean = TRUE
    /\ ncalls = 0
    /\ recorded = NoException
    /\ close_called = FALSE
    /\ open_closes = 0
    /\ early = {}
    /\ blockpts = {}
    /\ close_returned = FALSE
    /\ timed_out = FALSE

InitFile ==
    /\ WriterUnused
    /\ MapperUnused
    /\ ListInit
    /\ TrackerUnused
    /\ DeleteUnused
    /\ \E exists \in BOOLEAN : FileInit(exists)

\* Arguments of the k-th valid log_metric call: value k; the even calls also
\* pass an epoch timestamp and an iteration number.
FileGoodArgs(k) ==
    { [value |-> [kind |-> "int", v |-> k],
       timestamp |-> IF k % 2 = 1 THEN NoneArg ELSE [kind |-> "int", v |-> Now - k],
       iteration_number |-> IF k % 2 = 1 THEN NoneArg ELSE [kind |-> "int", v |-> k]] }

\* The _RawMetricData that log_metric(**a) constructs (record_type='File').
FilePointOf(a) ==
    RawMetricData(<<"file", f_nlog + 1>>, "m", a.value, a.timestamp, a.iteration_number, "File")

\* Slip of line 66: the write is never tried on the handle that is there.
WriteFailsAlways == TRUE

\* _write_metric_value, line 66: self._file.write raises AttributeError when
\* self._file is None.
WriteFails == f_file = None

\* What log_metric raises, NoException when it returns: the _RawMetricData
\* `r` is constructed first (lines 37-39, a validation error propagates),
\* then _write_metric_value runs (line 70 on a closed writer).
FileLogRaises(r) ==
    IF ~r.ok THEN Exc(r.exc, 0, <<>>)
    ELSE IF WriteFails /\ f_closed THEN ClosedWriterError
    ELSE NoException

\* log_metric: the whole call.  Lines 66-67 append the JSON text and the
\* newline to the buffer of the file object; lines 72-74 first open the file
\* in mode 'a' (created when it is not there, contents kept when it is).
FileLogMetric(a) ==
    LET r == FilePointOf(a)
        raised == FileLogRaises(r)
        text == json_dumps(to_record(r.rec)) \o <<Newline>>
    IN  /\ IF r.ok THEN f_nlog < MaxFileLogs ELSE f_nbad < MaxFileBad
        /\ f_nlog' = IF r.ok THEN f_nlog + 1 ELSE f_nlog
        /\ f_nbad' = IF r.ok THEN f_nbad ELSE f_nbad + 1
        /\ IF raised # NoException
           THEN /\ f_res' = raised
                /\ UNCHANGED <<f_file, f_buffer, f_exists, f_opens, f_logged>>
           ELSE /\ f_res' = Returned
                /\ f_file' = "handle"
                /\ f_opens' = IF WriteFails THEN f_opens + 1 ELSE f_opens
                /\ f_exists' = (f_exists \/ WriteFails)
                /\ f_buffer' = f_buffer \o text
                /\ f_logged' = Append(f_logged, r.rec)
        /\ UNCHANGED <<outsideFile, f_closed, f_disk, f_nclose, f_prior>>

\* The file object writes the head of its buffer to the file: it does so
\* when the buffer is full, which can be after any part of the text.
FileFlush(n) ==
    /\ f_file # None
    /\ n \in 1..Len(f_buffer)
    /\ f_disk' = f_disk \o SubSeq(f_buffer, 1, n)
    /\ f_buffer' = SubSeq(f_buffer, n + 1, Len(f_buffer))
    /\ UNCHANGED <<outsideFile, f_file, f_closed, f_exists, f_res, f_nlog, f_nbad,
                   f_nclose, f_opens, f_prior, f_logged>>

\* close(): self._file.close() writes what is left in the buffer; the
\* reference is dropped.
FileClose ==
    /\ f_nclose < MaxFileClose
    /\ f_nclose' = f_nclose + 1
    /\ IF ~f_closed /\ f_file # None
       THEN /\ f_disk' = f_disk \o f_buffer
            /\ f_buffer' = <<>>
            /\ f_file' = None
       ELSE UNCHANGED <<f_disk, f_buffer, f_file>>
    /\ f_closed' = TRUE
    /\ f_res' = Returned
    /\ UNCHANGED <<outsideFile, f_exists, f_nlog, f_nbad, f_opens, f_prior, f_logged>>

NextFile ==
    \/ \E a \in FileGoodArgs(f_nlog + 1) \cup BadArgs : FileLogMetric(a)
    \/ \E n \in 1..Len(f_buffer) : FileFlush(n)
    \/ FileClose

SpecFile == InitFile /\ [][NextFile]_vars

\* ----------------------------------------------------- the schema mapper
\* Integer attribute values: 1..MaxInt.
MaxInt == 1
\* Longest list held by a collection attribute.
MaxItems == 2
\* _invoke_api calls made on the record.
MaxInvocations == 1

\* Names are strings, modelled as sequences of characters.
Upper(c) == CASE c = "a" -> "A" [] c = "b" -> "B" [] c = "c" -> "C" [] OTHER -> c
Lower(c) == CASE c = "A" -> "a" [] c = "B" -> "b" [] c = "C" -> "c" [] OTHER -> c
IsUpper(c) == c \in {"A", "B", "C"}

\* ''.join(parts)
RECURSIVE Join(_)
Join(parts) == IF parts = <<>> THEN <<>> ELSE Head(parts) \o Join(Tail(parts))

\* name.split('_')
RECURSIVE Split(_)
Split(name) ==
    IF \A j \in 1..Len(name) : name[j] # "_" THEN <<name>>
    ELSE LET i == CHOOSE j \in 1..Len(name) :
                      name[j] = "_" /\ \A h \in 1..(j - 1) : name[h] # "_"
         IN  <<SubSeq(name, 1, i - 1)>> \o Split(SubSeq(name, i + 1, Len(name)))

\* A segment with its first character in upper case, the others in lower.
Capitalize(segment) ==
    [j \in 1..Len(segment) |-> IF j = 1 THEN Upper(segment[j]) ELSE Lower(segment[j])]

\* The name transform of the outbound conversion: split on underscores,
\* capitalize each segment, concatenate.
to_camel_case(name) ==
    LET segments == Split(name)
    IN  Join([j \in 1..Len(segments) |-> Capitalize(segments[j])])

\* The reverse transform of the inbound conversion on names as character
\* strings: an underscore before each capital that is not the first
\* character, then lower case.  (to_snake_case above is this transform
\* tabulated for the keys of an error entry.)
snake_case(name) ==
    Join([j \in 1..Len(name) |->
            IF IsUpper(name[j]) /\ j > 1 THEN <<"_", Lower(name[j])>> ELSE <<Lower(name[j])>>])

\* The attributes of the classes of the model.  TypeA is a plain ApiObject
\* subclass with the attribute `a`.  TypeB (an ApiObject subclass) and
\* DummyRecord (a Record subclass) have two plain attributes, one with an
\* overridden boto name, one of the nested type TypeA and one holding a
\* collection of TypeA.
attr_a == <<"a">>
attr_a_b == <<"a", "_", "b">>
attr_ab == <<"a", "b">>
attr_ba == <<"b", "a">>
attr_b_a == <<"b", "_", "a">>
attr_b == <<"b">>
sagemaker_boto_client == <<"c">>
AttrNames == <<attr_a, attr_a_b, attr_ab, attr_ba, attr_b_a>>

custom_boto_names(cls) ==
    IF cls = "TypeA" THEN <<>> ELSE (attr_ab :> <<"a", "B">>)
custom_boto_types(cls) ==
    IF cls = "TypeA" THEN <<>>
    ELSE (attr_ba :> [api_type |-> "TypeA", is_collection |-> FALSE])
         @@ (attr_b_a :> [api_type |-> "TypeA", is_collection |-> TRUE])
boto_update_members == {attr_a, attr_ab, attr_ba, attr_b_a, attr_b}
boto_delete_members == {attr_a}

\* Values: None, integers, ApiObject instances (class and __dict__), lists
\* and dicts; on the boto side dicts, lists and integers.
Integer(n) == [kind |-> "int", v |-> n]
Object(cls, dict) == [kind |-> "obj", cls |-> cls, dict |-> dict]
Dict(dict) == [kind |-> "dict", dict |-> dict]
List(elements) == [kind |-> "list", items |-> elements]
Absent == [kind |-> "absent"]
Client == [kind |-> "client"]

\* _boto_functions.to_boto(member_vars, member_name_to_boto_name,
\* member_name_to_type): None values are skipped, names are taken from the
\* override table or transformed, values of a registered nested type are
\* converted by that type (element-wise for a collection).
RECURSIVE boto_functions_to_boto(_, _, _)

\* ApiObject.to_boto(cls, obj), obj an instance or a dict.
to_boto(cls, obj) ==
    Dict(boto_functions_to_boto(obj.dict, custom_boto_names(cls), custom_boto_types(cls)))

boto_functions_to_boto(member_vars, member_name_to_boto_name, member_name_to_type) ==
    LET present == {k \in DOMAIN member_vars : member_vars[k] # NoneArg}
        boto_name(k) == IF k \in DOMAIN member_name_to_boto_name
                        THEN member_name_to_boto_name[k] ELSE to_camel_case(k)
        boto_value(k) ==
            LET v == member_vars[k]
            IN  IF k \notin DOMAIN member_name_to_type THEN v
                ELSE LET t == member_name_to_type[k]
                     IN  IF t.is_collection /\ v.kind = "list"
                         THEN List([j \in 1..Len(v.items) |-> to_boto(t.api_type, v.items[j])])
                         ELSE IF t.is_collection /\ v.kind = "dict"
                         THEN Dict([key \in DOMAIN v.dict |-> to_boto(t.api_type, v.dict[key])])
                         ELSE to_boto(t.api_type, v)
    IN  [name \in {boto_name(k) : k \in present} |->
            boto_value(CHOOSE k \in present : boto_name(k) = name)]

\* _boto_functions.from_boto(boto_dict, boto_name_to_member_name,
\* member_name_to_type): names are taken from the reversed override table or
\* transformed back, values of a registered nested type are converted by
\* that type (element-wise for a collection); other keys pass through.
RECURSIVE boto_functions_from_boto(_, _, _)

\* Slip of line 37: the override table is used as it is, not reversed.
FromBotoUnreversed(cls, boto_dict) ==
    Object(cls, boto_functions_from_boto(boto_dict.dict, custom_boto_names(cls),
                                         custom_boto_types(cls)))

\* ApiObject.from_boto(cls, boto_dict): cls(**cls_kwargs).
ApiObject_from_boto(cls, boto_dict) ==
    LET names == custom_boto_names(cls)
        custom_boto_names_to_member_names ==
            [b \in {names[k] : k \in DOMAIN names} |-> CHOOSE k \in DOMAIN names : names[k] = b]
    IN  Object(cls, boto_functions_from_boto(boto_dict.dict, custom_boto_names_to_member_names,
                                             custom_boto_types(cls)))

boto_functions_from_boto(boto_dict, boto_name_to_member_name, member_name_to_type) ==
    LET member_name(b) == IF b \in DOMAIN boto_name_to_member_name
                          THEN boto_name_to_member_name[b] ELSE snake_case(b)
        member_value(b) ==
            LET v == boto_dict[b]
                k == member_name(b)
            IN  IF k \notin DOMAIN member_name_to_type THEN v
                ELSE LET t == member_name_to_type[k]
                     IN  IF t.is_collection /\ v.kind = "list"
                         THEN List([j \in 1..Len(v.items) |->
                                      ApiObject_from_boto(t.api_type, v.items[j])])
                         ELSE IF t.is_collection /\ v.kind = "dict"
                         THEN Dict([key \in DOMAIN v.dict |->
                                      ApiObject_from_boto(t.api_type, v.dict[key])])
                         ELSE ApiObject_from_boto(t.api_type, v)
    IN  [name \in {member_name(b) : b \in DOMAIN boto_dict} |->
            member_value(CHOOSE b \in DOMAIN boto_dict : member_name(b) = name)]

\* The values an attribute can be given: a plain attribute None or an
\* integer, the nested attribute None or a TypeA instance, the collection
\* attribute None, a list of TypeA instances or a dict of them.
Primitives == {NoneArg} \cup {Integer(n) : n \in 1..MaxInt}
TypeAInstances ==
    {Object("TypeA", <<>>)} \cup {Object("TypeA", attr_a :> v) : v \in Primitives}
RECURSIVE ListsOf(_, _)
ListsOf(S, n) ==
    IF n = 0 THEN {<<>>}
    ELSE ListsOf(S, n - 1) \cup {Append(l, x) : l \in {m \in ListsOf(S, n - 1) : Len(m) = n - 1}, x \in S}
Collections ==
    {List(l) : l \in ListsOf(TypeAInstances, MaxItems)}
    \cup {Dict(<<>>)} \cup {Dict(<<"k">> :> x) : x \in TypeAInstances}
ValuesOf(name) ==
    {Absent, NoneArg}
    \cup (IF name = attr_ba THEN TypeAInstances
          ELSE IF name = attr_b_a THEN Collections
          ELSE Primitives)

\* Record.__init__(sagemaker_boto_client, **kwargs): vars(self).
Record(kwargs) == (sagemaker_boto_client :> Client) @@ kwargs

\* The keyword arguments that give AttrNames[j] the value pick[j], for the
\* j with a value.
Kwargs(pick) ==
    [name \in {AttrNames[j] : j \in {h \in 1..Len(AttrNames) : pick[h] # Absent}} |->
        pick[CHOOSE j \in 1..Len(AttrNames) : AttrNames[j] = name]]

InitMapper ==
    /\ WriterUnused
    /\ FileInit(FALSE)
    /\ ListInit
    /\ TrackerUnused
    /\ DeleteUnused
    /\ \E v1 \in ValuesOf(AttrNames[1]), v2 \in ValuesOf(AttrNames[2]),
          v3 \in ValuesOf(AttrNames[3]), v4 \in ValuesOf(AttrNames[4]),
          v5 \in ValuesOf(AttrNames[5]) :
          m_attrs = Kwargs(<<v1, v2, v3, v4, v5>>)
    /\ m_boto = NoneArg
    /\ m_back = NoneArg
    /\ m_record = Record(m_attrs)
    /\ m_requests = <<>>

\* TypeB.to_boto(x), x == TypeB(**attrs).
MapToBoto ==
    /\ m_boto = NoneArg
    /\ m_boto' = to_boto("TypeB", Object("TypeB", m_attrs))
    /\ UNCHANGED <<outsideMapper, m_attrs, m_back, m_record, m_requests>>

\* TypeB.from_boto(...) on that result.
MapFromBoto ==
    /\ m_boto # NoneArg
    /\ m_back = NoneArg
    /\ m_back' = ApiObject_from_boto("TypeB", m_boto)
    /\ UNCHANGED <<outsideMapper, m_attrs, m_boto, m_record, m_requests>>

\* What the remote operation answers.
ResponseTo(boto_method) ==
    IF boto_method = "update" THEN Dict(<<"B">> :> Integer(1)) ELSE Dict(<<>>)

\* Slip of line 134: every attribute of the instance is sent.
ApiValuesAll(self, boto_method_members) == self

\* _invoke_api, line 134: the attributes named in boto_method_members.
ApiValues(self, boto_method_members) ==
    [k \in {h \in DOMAIN self : h \in boto_method_members} |-> self[k]]

\* Record.with_boto(boto_dict): self.__dict__.update(...).
with_boto(self, boto_dict) ==
    LET custom == custom_boto_names("DummyRecord")
        custom_boto_names_to_member_names ==
            [b \in {custom[k] : k \in DOMAIN custom} |-> CHOOSE k \in DOMAIN custom : custom[k] = b]
        update == boto_functions_from_boto(boto_dict.dict, custom_boto_names_to_member_names,
                                           custom_boto_types("DummyRecord"))
    IN  [k \in DOMAIN self \cup DOMAIN update |-> IF k \in DOMAIN update THEN update[k] ELSE self[k]]

\* Record._invoke_api(boto_method, boto_method_members), called by the
\* record's update() and delete().
InvokeApi(boto_method, boto_method_members) ==
    LET api_values == ApiValues(m_record, boto_method_members)
        api_kwargs == to_boto("DummyRecord", Dict(api_values))
    IN  /\ Len(m_requests) < MaxInvocations
        /\ m_requests' = Append(m_requests, [method |-> boto_method,
                                             members |-> boto_method_members,
                                             self |-> m_record,
                                             kwargs |-> api_kwargs.dict])
        /\ m_record' = with_boto(m_record, ResponseTo(boto_method))
        /\ UNCHANGED <<outsideMapper, m_attrs, m_boto, m_back>>

NextMapper ==
    \/ MapToBoto
    \/ MapFromBoto
    \/ InvokeApi("update", boto_update_members)
    \/ InvokeApi("delete", boto_delete_members)

SpecMapper == InitMapper /\ [][NextMapper]_vars

\* ----------------------------------------------------------- Record._list
\* Responses that may carry a continuation token; the one after them may not.
MaxPages == 2
\* Most items of a page.
MaxPageItems == 2

\* boto_next_token_name and boto_list_items_name.
NextToken == <<"N", "e", "x", "t", "T", "o", "k", "e", "n">>
Summaries == <<"S", "u", "m", "m", "a", "r", "i", "e", "s">>

\* The keyword arguments given to _list: one set, one None.
ListKwargs == (attr_a :> Integer(1)) @@ (attr_b :> NoneArg)

\* Slip of lines 106/114: only None counts as no token.
TruthyUnlessNone(x) == x # None

\* `if x` for a token: None and '' are false.
Truthy(x) == x \notin {None, ""}

\* dict.get(key, default)
Get(dict, key, default) == IF key \in DOMAIN dict THEN dict[key] ELSE default

\* The responses the remote list operation can give to the n-th call: with
\* or without the items key, with up to MaxPageItems items (numbered on from
\* `served`), and with a token, an empty token or none.
PageItems(served, n) == [j \in 1..n |-> Dict(<<"A">> :> Integer(served + j))]
ListResponses(n, served) ==
    { page @@ token :
        page \in {<<>>} \cup {Summaries :> PageItems(served, k) : k \in 0..MaxPageItems},
        token \in {<<>>, NextToken :> ""}
                  \cup (IF n <= MaxPages THEN {NextToken :> "a", NextToken :> "b"} ELSE {}) }

\* Items served by the responses so far.
RECURSIVE ItemsOf(_)
ItemsOf(responses) ==
    IF responses = <<>> THEN <<>>
    ELSE Get(Head(responses), Summaries, <<>>) \o ItemsOf(Tail(responses))

\* list_item_factory: DummyRecordSummary.from_boto.
list_item_factory(item) == ApiObject_from_boto("TypeA", item)

\* Lines 104-111: the request is built and sent, the list_method_response is taken apart.
ListCall(list_method_response) ==
    LET converted == boto_functions_to_boto(ListKwargs, custom_boto_names("DummyRecord"),
                                            custom_boto_types("DummyRecord"))
        list_request_kwargs ==
            IF Truthy(l_next_token) THEN (NextToken :> l_next_token) @@ converted
            ELSE converted
        list_items == Get(list_method_response, Summaries, <<>>)
    IN  /\ l_pc = "loop"
        /\ l_requests = <<>> \/ Truthy(l_next_token)
        /\ l_requests' = Append(l_requests, list_request_kwargs)
        /\ l_responses' = Append(l_responses, list_method_response)
        /\ l_list_items' = list_items
        /\ l_next_token' = Get(list_method_response, NextToken, None)
        /\ l_pc' = IF list_items = <<>> THEN "loop" ELSE "yield"
        /\ UNCHANGED <<outsideList, l_yielded>>

\* Line 113: the next item of the page is yielded.
ListYield ==
    /\ l_pc = "yield"
    /\ l_yielded' = Append(l_yielded, list_item_factory(Head(l_list_items)))
    /\ l_list_items' = Tail(l_list_items)
    /\ l_pc' = IF Tail(l_list_items) = <<>> THEN "loop" ELSE "yield"
    /\ UNCHANGED <<outsideList, l_next_token, l_requests, l_responses>>

\* Lines 114-115: `if not next_token: break`; the generator is exhausted.
ListBreak ==
    /\ l_pc = "loop"
    /\ l_requests # <<>>
    /\ ~Truthy(l_next_token)
    /\ l_pc' = "done"
    /\ UNCHANGED <<outsideList, l_next_token, l_list_items, l_requests, l_responses, l_yielded>>

NextList ==
    \/ \E list_method_response \in ListResponses(Len(l_requests) + 1, Len(ItemsOf(l_responses))) :
          ListCall(list_method_response)
    \/ ListYield
    \/ ListBreak

InitList ==
    /\ WriterUnused
    /\ FileInit(FALSE)
    /\ MapperUnused
    /\ ListInit
    /\ TrackerUnused
    /\ DeleteUnused

SpecList == InitList /\ [][NextList]_vars

\* ============================================================ Tracker
\* smexperiments/tracker.py: the log calls that record artifacts and the
\* context manager.  The files named exist or not; a trial component starts
\* with no artifacts, one short of the limit, or at the limit.
MaxTrackerLogs == 2
MaxNewNames == 2

StartSizes == {0, ArtifactLimit - 1, ArtifactLimit}
\* Artifact names: one the trial component may already hold, and new ones;
\* NoName stands for a name argument left out (None).
NoName == 0
LogNames == {1} \cup ((ArtifactLimit + 1)..(ArtifactLimit + MaxNewNames))
\* Local files: `filename` the last component of the path, `isfile` what
\* os.path.isfile answers.
FilePaths == {[filename |-> ArtifactLimit + 1, isfile |-> b] : b \in BOOLEAN}
MediaTypes == {None, "whizz/bang"}
\* The exceptions a with block raises; str() of one is its message.
Exceptions == {[kind |-> "exception", message |-> m] : m \in {"", "Foo"}}
str(exc_value) == exc_value.message

LimitError == Exc("ValueError", 0, <<"Cannot add more than 30">>)
NoFileError == Exc("ValueError", 0, <<"does not exist or is not a file">>)

InitTracker ==
    /\ WriterUnused
    /\ FileInit(FALSE)
    /\ MapperUnused
    /\ ListInit
    /\ DeleteUnused
    /\ \E in_job \in BOOLEAN, n_in \in StartSizes, n_out \in StartSizes :
          TrackerInit(in_job, n_in, n_out)

\* len(artifacts) > 30: off by one.
OverLimit(artifacts) == Cardinality(DOMAIN artifacts) > ArtifactLimit

\* len(artifacts) >= 30.
AtLimit(artifacts) == Cardinality(DOMAIN artifacts) >= ArtifactLimit

\* artifacts[name] = artifact.
Put(artifacts, name, artifact) ==
    [n \in DOMAIN artifacts \cup {name} |-> IF n = name THEN artifact ELSE artifacts[n]]

\* x or y, for strings and for names.
Or(x, y) == IF x \notin {None, ""} THEN x ELSE y
NameOr(name, default) == IF name # NoName THEN name ELSE default

\* datetime.datetime.now(dateutil.tz.tzlocal()).
datetime_now == [kind |-> "datetime", t |-> t_clock]

\* The paths of FilePaths all end in a file name, which is the name.
resolve_artifact_name(file_path) == file_path.filename
guess_media_type(file_path) == "text/plain"

\* _ArtifactUploader.upload_artifact past the isfile test: the s3 URI and the
\* etag of the uploaded file.
upload_artifact(file_path) == [s3_uri |-> <<"s3", file_path.filename>>, etag |-> "etag"]

LineageArtifact(name, source_uri, etag, source_arn, dest_arn, artifact_type) ==
    [name |-> name, source_uri |-> source_uri, etag |-> etag, source_arn |-> source_arn,
     dest_arn |-> dest_arn, artifact_type |-> Or(artifact_type, "Tracker")]

add_input_artifact(name, source_uri, etag, artifact_type) ==
    Append(t_artifacts, LineageArtifact(name, source_uri, etag, None, "arn", artifact_type))

add_output_artifact(name, source_uri, etag, artifact_type) ==
    Append(t_artifacts, LineageArtifact(name, source_uri, etag, "arn", None, artifact_type))

\* What every log call does besides its own work.
LogCall(method) ==
    /\ t_nlog < MaxTrackerLogs
    /\ t_nlog' = t_nlog + 1
    /\ t_call' = method
    /\ UNCHANGED <<outsideTracker, t_in_sagemaker_job, t_start_time, t_end_time, t_status,
                   t_tracker_times, t_saved, t_pc, t_exc, t_clock>>

log_input(name, value, media_type) ==
    /\ LogCall("log_input")
    /\ IF AtLimit(t_input_artifacts)
       THEN /\ t_res' = LimitError
            /\ UNCHANGED t_input_artifacts
       ELSE /\ t_input_artifacts' =
                   Put(t_input_artifacts, name, TrialComponentArtifact(value, media_type))
            /\ t_res' = Returned
    /\ UNCHANGED <<t_output_artifacts, t_uploads, t_artifacts>>

log_output(name, value, media_type) ==
    /\ LogCall("log_output")
    /\ IF AtLimit(t_output_artifacts)
       THEN /\ t_res' = LimitError
            /\ UNCHANGED t_output_artifacts
       ELSE /\ t_output_artifacts' =
                   Put(t_output_artifacts, name, TrialComponentArtifact(value, media_type))
            /\ t_res' = Returned
    /\ UNCHANGED <<t_input_artifacts, t_uploads, t_artifacts>>

log_output_artifact(file_path, name, media_type) ==
    /\ LogCall("log_output_artifact")
    /\ IF AtLimit(t_output_artifacts)
       THEN /\ t_res' = LimitError
            /\ UNCHANGED <<t_output_artifacts, t_uploads, t_artifacts>>
       ELSE IF ~file_path.isfile
       THEN /\ t_res' = NoFileError
            /\ UNCHANGED <<t_output_artifacts, t_uploads, t_artifacts>>
       ELSE LET media == Or(media_type, guess_media_type(file_path))
                artifact_name == NameOr(name, resolve_artifact_name(file_path))
                up == upload_artifact(file_path)
            IN  /\ t_uploads' = Append(t_uploads, file_path)
                /\ t_output_artifacts' =
                       Put(t_output_artifacts, artifact_name,
                           TrialComponentArtifact(up.s3_uri, media))
                /\ t_artifacts' = add_output_artifact(artifact_name, up.s3_uri, up.etag, media)
                /\ t_res' = Returned
    /\ UNCHANGED t_input_artifacts

log_input_artifact(file_path, name, media_type) ==
    /\ LogCall("log_input_artifact")
    /\ IF AtLimit(t_input_artifacts)
       THEN /\ t_res' = LimitError
            /\ UNCHANGED <<t_input_artifacts, t_uploads, t_artifacts>>
       ELSE IF ~file_path.isfile
       THEN /\ t_res' = NoFileError
            /\ UNCHANGED <<t_input_artifacts, t_uploads, t_artifacts>>
       ELSE LET media == Or(media_type, guess_media_type(file_path))
                artifact_name == NameOr(name, resolve_artifact_name(file_path))
                up == upload_artifact(file_path)
            IN  /\ t_uploads' = Append(t_uploads, file_path)
                /\ t_input_artifacts' =
                       Put(t_input_artifacts, artifact_name,
                           TrialComponentArtifact(up.s3_uri, media))
                /\ t_artifacts' = add_input_artifact(artifact_name, up.s3_uri, up.etag, media)
                /\ t_res' = Returned
    /\ UNCHANGED t_output_artifacts

\* api_types.TrialComponentStatus(primary_status, message).
TrialComponentStatus(primary_status, message) ==
    [primary_status |-> primary_status, message |-> message]

\* Lines 598-602.
TrackerEnter ==
    /\ t_pc = "created"
    /\ t_pc' = "entered"
    /\ t_call' = "__enter__"
    /\ t_clock' = t_clock + 1
    /\ t_tracker_times' = <<datetime_now, t_tracker_times[2]>>
    /\ IF ~t_in_sagemaker_job
       THEN /\ t_start_time' = datetime_now
            /\ t_status' = TrialComponentStatus("InProgress", None)
       ELSE UNCHANGED <<t_start_time, t_status>>
    /\ t_res' = Returned
    /\ UNCHANGED <<outsideTracker, t_in_sagemaker_job, t_end_time, t_input_artifacts,
                   t_output_artifacts, t_uploads, t_artifacts, t_saved, t_exc, t_nlog>>

\* The status is always Completed.
ExitStatusCompleted(exc_value) == TrialComponentStatus("Completed", None)

\* Lines 612-617.  An exception object is true: BaseException defines
\* neither __bool__ nor __len__.
ExitStatus(exc_value) ==
    IF exc_value # NoneArg
    THEN TrialComponentStatus("Failed", str(exc_value))
    ELSE TrialComponentStatus("Completed", None)

\* What trial_component.save() and _lineage_artifact_tracker.save() send.
Saved(status, start_time, end_time) ==
    [status |-> status, start_time |-> start_time, end_time |-> end_time,
     input_artifacts |-> t_input_artifacts, output_artifacts |-> t_output_artifacts,
     artifacts |-> t_artifacts]

\* Lines 609-618 and close(): the with block has ended, with exc_value the
\* exception that leaves it or None.
TrackerExit(exc_value) ==
    /\ t_pc = "entered"
    /\ t_pc' = "exited"
    /\ t_call' = "__exit__"
    /\ t_exc' = exc_value
    /\ t_clock' = t_clock + 1
    /\ t_tracker_times' = <<t_tracker_times[1], datetime_now>>
    /\ IF ~t_in_sagemaker_job
       THEN /\ t_end_time' = datetime_now
            /\ t_status' = ExitStatus(exc_value)
       ELSE UNCHANGED <<t_end_time, t_status>>
    /\ t_saved' = Saved(t_status', t_start_time, t_end_time')
    /\ t_res' = Returned
    /\ UNCHANGED <<outsideTracker, t_in_sagemaker_job, t_start_time, t_input_artifacts,
                   t_output_artifacts, t_uploads, t_artifacts, t_nlog>>

NextTracker ==
    \/ \E name \in LogNames : log_input(name, "s3", None)
    \/ \E name \in LogNames : log_output(name, "s3", None)
    \/ \E file_path \in FilePaths, name \in {NoName, 1}, media_type \in MediaTypes :
          log_input_artifact(file_path, name, media_type)
    \/ \E file_path \in FilePaths, name \in {NoName, 1}, media_type \in MediaTypes :
          log_output_artifact(file_path, name, media_type)
    \/ TrackerEnter
    \/ \E exc_value \in {NoneArg} \cup Exceptions : TrackerExit(exc_value)

SpecTracker == InitTracker /\ [][NextTracker]_vars

\* ========================================================== delete_all
\* Experiment.delete_all and Trial.delete_all, with the methods of Trial and
\* TrialComponent they call, against a service that holds up to MaxTrials
\* trials of up to MaxComponents trial components each and answers every list
\* call with one page.  The first call of each of the first d_failing passes
\* fails; every other call succeeds.
MaxTrials == 2
MaxComponents == 2
MaxFailing == 2

MAX_DELETE_ALL_ATTEMPTS == 3

\* self.experiment_name; trials and trial components are named 1, 2, ...
experiment_name == 0

TrialOf(i, n) ==
    [trial_name |-> i, components |-> [j \in 1..n |-> (i - 1) * MaxComponents + j]]

\* The trials the service lists: those of the experiment, or the trial itself.
Listings(cls) ==
    IF cls = "Trial"
    THEN {<<TrialOf(1, n)>> : n \in 0..MaxComponents}
    ELSE UNION {{[i \in 1..k |-> TrialOf(i, counts[i])] : counts \in [1..k -> 0..MaxComponents]}
                   : k \in 0..MaxTrials}

InitDelete ==
    /\ WriterUnused
    /\ FileInit(FALSE)
    /\ MapperUnused
    /\ ListInit
    /\ TrackerUnused
    /\ \E cls \in {"Experiment", "Trial"}, action \in {"--force", "abc"}, failing \in 0..MaxFailing :
          \E trials \in Listings(cls) : DeleteInit(cls, action, trials, failing)

\* The parameters, besides self or cls, of the functions that delete_all and
\* the methods it calls invoke with keyword arguments.
Trial_list_parameters ==
    {"experiment_name", "trial_component_name", "created_before", "created_after", "sort_by",
     "sort_order", "sagemaker_boto_client"}
Trial_load_parameters == {"trial_name", "sagemaker_boto_client"}
TrialComponent_list_parameters ==
    {"trial_name", "experiment_name", "source_arn", "created_before", "created_after",
     "sort_by", "sort_order", "sagemaker_boto_client"}
TrialComponent_load_parameters == {"trial_component_name", "sagemaker_boto_client"}
TrialComponent_delete_parameters == {}

\* The keywords of those invocations.
list_trials_keywords ==
    {"experiment_name", "created_before", "created_after", "sort_by", "sort_order",
     "sagemaker_boto_client"}
list_trial_components_keywords ==
    {"trial_name", "created_before", "created_after", "sort_by", "sort_order", "max_results",
     "next_token", "sagemaker_boto_client"}
load_trial_keywords == {"sagemaker_boto_client", "trial_name"}
load_trial_component_keywords == {"sagemaker_boto_client", "trial_component_name"}
delete_trial_component_keywords == {"force_disassociate"}

\* Python binds a call iff every keyword names a parameter; else TypeError.
Binds(parameters, keywords) == keywords \subseteq parameters
UnexpectedKeyword == Exc("TypeError", 0, <<"got an unexpected keyword argument">>)
ServiceError == Exc("ClientError", 0, <<>>)
ForceError == Exc("ValueError", 0, <<"Must confirm with string '--force'">>)
FailedToDelete == Exc("Exception", 0, <<"Failed to delete, please try again.">>)

\* A call on the client and whether it succeeded.
Call(method, name, ok) == [method |-> method, name |-> name, ok |-> ok]

\* The state of a pass: the calls made so far and the exception that ended it.
Pass(made, exception) == [calls |-> made, exception |-> exception]
Invoke(pass, method, name) == Pass(Append(pass.calls, Call(method, name, TRUE)), NoException)
Raise(pass, exception) == Pass(pass.calls, exception)

\* Lines 269-276 of experiment.py (302-307 of trial.py): the loop over the
\* trial component summaries still to come.
RECURSIVE DeleteComponents(_, _)
DeleteComponents(components, pass) ==
    IF components = <<>> THEN pass
    ELSE IF ~Binds(TrialComponent_load_parameters, load_trial_component_keywords)
    THEN Raise(pass, UnexpectedKeyword)
    ELSE LET loaded == Invoke(pass, "describe_trial_component", Head(components))
         IN  IF ~Binds(TrialComponent_delete_parameters, delete_trial_component_keywords)
             THEN Raise(loaded, UnexpectedKeyword)
             ELSE DeleteComponents(Tail(components),
                                   Invoke(loaded, "delete_trial_component", Head(components)))

\* Trial.list_trial_components (lines 271-280 of trial.py) and the loop over
\* what it returns.
ListAndDeleteComponents(t, pass, fails) ==
    IF ~Binds(TrialComponent_list_parameters, list_trial_components_keywords)
    THEN Raise(pass, UnexpectedKeyword)
    ELSE IF fails
    THEN Pass(Append(pass.calls, Call("list_trial_components", t.trial_name, FALSE)), ServiceError)
    ELSE DeleteComponents(t.components, Invoke(pass, "list_trial_components", t.trial_name))

\* Lines 265-279 of experiment.py: the loop over the trial summaries still to
\* come.
RECURSIVE DeleteTrials(_, _)
DeleteTrials(trials, pass) ==
    IF trials = <<>> THEN pass
    ELSE IF ~Binds(Trial_load_parameters, load_trial_keywords)
    THEN Raise(pass, UnexpectedKeyword)
    ELSE LET t == Head(trials)
             emptied == ListAndDeleteComponents(t, Invoke(pass, "describe_trial", t.trial_name), FALSE)
         IN  IF emptied.exception # NoException THEN emptied
             ELSE DeleteTrials(Tail(trials), Invoke(emptied, "delete_trial", t.trial_name))

\* The try block of Experiment.delete_all, lines 265-281.
ExperimentPass(fails) ==
    IF ~Binds(Trial_list_parameters, list_trials_keywords)
    THEN Pass(<<>>, UnexpectedKeyword)
    ELSE IF fails
    THEN Pass(<<Call("list_trials", experiment_name, FALSE)>>, ServiceError)
    ELSE LET emptied == DeleteTrials(d_trials, Pass(<<Call("list_trials", experiment_name, TRUE)>>, NoException))
         IN  IF emptied.exception # NoException THEN emptied
             ELSE Invoke(emptied, "delete_experiment", experiment_name)

\* The try block of Trial.delete_all, lines 300-309 of trial.py.
TrialPass(fails) ==
    LET emptied == ListAndDeleteComponents(d_trials[1], Pass(<<>>, NoException), fails)
    IN  IF emptied.exception # NoException THEN emptied
        ELSE Invoke(emptied, "delete_trial", d_trials[1].trial_name)

\* The service after the calls of a pass: what was deleted is gone.
Called(made, method, name) ==
    \E j \in 1..Len(made) : made[j] = Call(method, name, TRUE)
RemainingComponents(components, made) ==
    SelectSeq(components, LAMBDA c : ~Called(made, "delete_trial_component", c))
RemainingTrials(trials, made) ==
    LET kept == SelectSeq(trials, LAMBDA t : ~Called(made, "delete_trial", t.trial_name))
    IN  [i \in 1..Len(kept) |->
            [kept[i] EXCEPT !.components = RemainingComponents(kept[i].components, made)]]

\* Lines 253-260 of experiment.py, 289-295 of trial.py.
DeleteAllCall ==
    /\ d_pc = "idle"
    /\ IF d_action # "--force"
       THEN /\ d_pc' = "raised"
            /\ d_res' = ForceError
       ELSE /\ d_pc' = "loop"
            /\ UNCHANGED d_res
    /\ UNCHANGED <<outsideDelete, d_cls, d_action, d_trials, d_exists, d_failing,
                   d_delete_attempt_count, d_last_exception, d_calls, d_listed, d_passes>>

\* One pass more than allowed.
AttemptsExhaustedLate == d_delete_attempt_count = MAX_DELETE_ALL_ATTEMPTS + 1

\* Line 262 of experiment.py, 297 of trial.py.
AttemptsExhausted == d_delete_attempt_count = MAX_DELETE_ALL_ATTEMPTS

\* One turn of the while loop, lines 261-285 of experiment.py and 296-313 of
\* trial.py.
DeleteAllAttempt ==
    /\ d_pc = "loop"
    /\ IF AttemptsExhausted
       THEN /\ d_pc' = "raised"
            /\ d_res' = FailedToDelete
            /\ UNCHANGED <<d_trials, d_exists, d_failing, d_delete_attempt_count,
                           d_last_exception, d_calls, d_passes>>
       ELSE LET fails == d_failing > 0
                pass == IF d_cls = "Experiment" THEN ExperimentPass(fails) ELSE TrialPass(fails)
                self_deleted == Called(pass.calls, IF d_cls = "Experiment" THEN "delete_experiment"
                                                   ELSE "delete_trial",
                                       IF d_cls = "Experiment" THEN experiment_name ELSE d_trials[1].trial_name)
            IN  /\ d_calls' = d_calls \o pass.calls
                /\ d_failing' = IF \E j \in 1..Len(pass.calls) : ~pass.calls[j].ok
                                THEN d_failing - 1 ELSE d_failing
                /\ d_trials' = IF d_cls = "Experiment" THEN RemainingTrials(d_trials, pass.calls)
                               ELSE <<[d_trials[1] EXCEPT !.components =
                                          RemainingComponents(d_trials[1].components, pass.calls)]>>
                /\ d_exists' = (d_exists /\ ~self_deleted)
                /\ d_delete_attempt_count' = d_delete_attempt_count + 1
                /\ d_passes' = Append(d_passes, pass.exception)
                /\ IF pass.exception = NoException
                   THEN /\ d_pc' = "returned"
                        /\ d_res' = Returned
                        /\ UNCHANGED d_last_exception
                   ELSE /\ d_last_exception' = pass.exception
                        /\ UNCHANGED <<d_pc, d_res>>
    /\ UNCHANGED <<outsideDelete, d_cls, d_action, d_listed>>

NextDelete ==
    \/ DeleteAllCall
    \/ DeleteAllAttempt

SpecDelete == InitDelete /\ [][NextDelete]_vars

\* ---------------------------------------------------------------- claims
\* Number of records with identity `id` handed to batch_put_metrics so far.
Occurrences(id) == Cardinality({j \in 1..Len(calls) : calls[j].id = id})

\* C1: when close() (one call that found the writer open) has returned and
\* the publisher thread has finished, every point whose log_metric returned
\* before close() was called has been passed to batch_put_metrics in exactly
\* one call; and no point is ever passed twice.
C1_NoLossNoDuplicate ==
    /\ (close_returned /\ open_closes = 1 /\ wpc = "done")
           => \A id \in early : Occurrences(id) = 1
    /\ \A j, k \in 1..Len(calls) : calls[j].id = calls[k].id => j = k

C1_Witness ==
    /\ close_returned
    /\ open_closes = 1
    /\ wpc = "done"
    /\ Cardinality(early) > QUEUE_SIZE
    /\ Len(calls) > QUEUE_SIZE

\* C2: the queue never holds more than QUEUE_SIZE entries (pill included); a
\* log_metric whose put finds the queue full stays in the put and keeps its
\* point; as soon as the queue has room the put can complete, and completing
\* it appends exactly that point at the tail and returns.
C2_Backpressure ==
    /\ [](Len(queue) <= QUEUE_SIZE)
    /\ [][\A t \in Threads :
            (tpc[t] = "put" /\ Len(queue) >= QUEUE_SIZE)
                => (tpc'[t] = "put" /\ pending'[t] = pending[t] /\ res'[t] = res[t])]_vars
    /\ [][\A t \in Threads :
            (tpc[t] = "put" /\ tpc'[t] # "put")
                => (queue' = Append(queue, pending[t]) /\ res'[t] = Returned)]_vars
    /\ [](\A t \in Threads :
            (tpc[t] = "put" /\ Len(queue) < QUEUE_SIZE) => ENABLED LogPut(t))

C2_Witness ==
    \E t \in Threads :
        /\ tpc[t] = "put"
        /\ Len(queue) = QUEUE_SIZE
        /\ pending[t].id = <<t, QUEUE_SIZE + 1>>

\* C3: in the concatenation of the MetricData lists of all batch_put_metrics
\* calls, the points of each thread appear in the order in which the thread
\* logged them (also in the batch from which the pill was removed).
C3_ProducerOrder ==
    \A j, k \in 1..Len(calls) :
        (j < k /\ calls[j].id[1] = calls[k].id[1]) => calls[j].id[2] < calls[k].id[2]

C3_Witness ==
    /\ should_terminate
    /\ wpc = "call"
    /\ \E j, k \in 1..Len(in_flight) :
          j < k /\ in_flight[j].id[1] = in_flight[k].id[1] /\ in_flight[k].id \notin early
    /\ \E j \in 1..Len(calls) : calls[j].id[1] = "t2"

\* Thread t makes a log_metric call / enters close() in this step.
LogStep(t) == nlog'[t] # nlog[t] \/ nbad'[t] # nbad[t]
CloseStep(t) == nclose'[t] # nclose[t]

\* C4: once a close() that found the writer open has returned (or raised),
\* every log_metric call, with valid or invalid arguments, raises
\* SageMakerMetricsWriterException and neither enqueues nor submits anything.
C4_LogAfterClose ==
    [][\A t \in Threads :
         (close_returned /\ LogStep(t))
             => /\ res'[t] = ClosedWriterError
                /\ tpc'[t] = "idle"
                /\ UNCHANGED <<queue, pending, calls, in_flight>>]_vars

C4_Witness ==
    /\ close_returned
    /\ nbad["t1"] = 1
    /\ nlog["t1"] = 0
    /\ tpc["t1"] = "idle"
    /\ res["t1"] = ClosedWriterError

\* C5: a close() called after a close() has completed returns at once: no
\* pill is enqueued, nothing is submitted, nothing is raised (also when
\* raise_on_close is set and an error is recorded); _closed goes from False
\* to True once and never back.
C5_CloseIdempotent ==
    /\ [][\A t \in Threads :
            (close_returned /\ CloseStep(t))
                => /\ tpc'[t] = "idle"
                   /\ res'[t] = Returned \/ (inwith[t] = "raised" /\ res'[t] = res[t])
                   /\ UNCHANGED <<queue, calls, in_flight, closed, work_queue,
                                  last_exception>>]_vars
    /\ [][closed => closed']_vars

C5_Witness ==
    /\ raise_on_close
    /\ has_error
    /\ ~timed_out
    /\ inwith["t1"] = "out"
    /\ nclose["t1"] = 2
    /\ tpc["t1"] = "idle"
    /\ res["t1"] = Returned

\* C6: a close() that reaches line 171 raises if and only if raise_on_close
\* is set and the publisher has stored an error, it raises the error stored
\* most recently, and in both cases the writer is closed when it ends.
C6_CloseRaises ==
    [][\A t \in Threads :
         (tpc[t] \in {"c_check", "c_raise"} /\ tpc'[t] # tpc[t])
             => /\ closed' /\ work_queue' = None
                /\ tpc[t] = "c_check"
                     => (tpc'[t] = "c_raise" <=> (raise_on_close /\ recorded # NoException))
                /\ (tpc[t] = "c_check" /\ tpc'[t] # "c_raise")
                     => /\ tpc'[t] = "idle"
                        /\ res'[t] = Returned
                             \/ (inwith[t] = "exit_raised" /\ res'[t] = res[t])
                /\ tpc[t] = "c_raise"
                     => (tpc'[t] = "idle" /\ res'[t] = recorded /\ recorded # NoException)]_vars

C6_Witness ==
    \E t \in Threads :
        /\ raise_on_close
        /\ closed
        /\ tpc[t] = "idle"
        /\ recorded.n = 2
        /\ res[t] = recorded

\* C7: when a batch_put_metrics response lists per-item errors, the flush
\* leaves has_error True and last_error a SageMakerMetricsWriterException
\* whose errors are the reported ones, in the reported order, each with its
\* code, message and metric_index and, as metric_value, the record at that
\* index of the batch the sink was given in that call.
C7_PartialFailures ==
    [][(/\ wpc = "call"
        /\ wpc' = "loop"
        /\ response'.kind = "return"
        /\ "Errors" \in DOMAIN response'.body
        /\ response'.body.Errors # <<>>)
          => LET reported == response'.body.Errors
                 errors == last_exception'.errors
             IN  /\ has_error'
                 /\ last_error'.type = "SageMakerMetricsWriterException"
                 /\ Len(errors) = Len(reported)
                 /\ \A j \in 1..Len(reported) :
                      /\ errors[j].code = reported[j].Code
                      /\ errors[j].message = reported[j].Message
                      /\ errors[j].metric_index = reported[j].MetricIndex
                      /\ errors[j].metric_value = in_flight[reported[j].MetricIndex + 1]]_vars

C7_Witness ==
    /\ wpc = "loop"
    /\ response.kind = "return"
    /\ "Errors" \in DOMAIN response.body
    /\ Len(response.body.Errors) = 2
    /\ last_error.type = "SageMakerMetricsWriterException"
    /\ Len(last_error.errors) = 2
    /\ last_error.errors[1].metric_index = 1

\* C8: as long as every batch_put_metrics call has returned normally without
\* per-item errors (error list empty or absent), has_error is False (so a
\* close() with raise_on_close has nothing to raise).  Stated for a writer on
\* which no join() has timed out and close() was not entered twice at once.
C8_SucceedingSinkNoError ==
    (sink_clean /\ ~timed_out /\ open_closes <= 1) => ~has_error

C10_ValidationError ==
    /\ [][\A t \in Threads : \A a \in BadArgs :
            (work_queue # None /\ LogMetric(t, a))
                => /\ res'[t].type \in ValidationErrors
                   /\ tpc'[t] = "idle"
                   /\ UNCHANGED <<queue, pending, last_exception, calls, in_flight, closed,
                                  work_queue, should_terminate>>]_vars
    /\ [][\A t \in Threads : \A a \in GoodArgs(t, nlog[t] + 1) :
            (work_queue # None /\ LogMetric(t, a))
                => (tpc'[t] = "put" /\ pending'[t] = PointOf(t, a).rec)]_vars

C10_Witness ==
    /\ nclose["t1"] = 0
    /\ inwith["t1"] = "out"
    /\ nbad["t1"] = 1
    /\ nlog["t1"] = 1
    /\ tpc["t1"] = "idle"
    /\ res["t1"] = Returned
    /\ Occurrences(<<"t1", 1>>) = 1

\* The validity window around utcnow() that the claim speaks of, in the
\* units of Now.
Window == [past |-> 14, future |-> 2]
InWindow(timestamp) ==
    /\ timestamp.wall >= Now - Window.past
    /\ timestamp.wall <= Now + Window.future

\* C11: a point whose timestamp lies outside the validity window around the
\* current time is never enqueued and never submitted (its log_metric raised
\* in the caller instead).
C11_WindowEnforced ==
    /\ \A j \in 1..Len(queue) :
          queue[j] # terminate_message => InWindow(queue[j].Timestamp)
    /\ \A j \in 1..Len(calls) : InWindow(calls[j].Timestamp)

\* The file writer makes a log_metric call / a close() call in this step.
FileLogStep == f_nlog' # f_nlog \/ f_nbad' # f_nbad
FileCloseStep == f_nclose' # f_nclose

\* C12: the metrics file is opened at most once, and only by the first
\* log_metric call that reaches the write; as long as nothing was written no
\* file is created; close() never raises, however often and whenever it is
\* called; once closed, the writer holds no handle, nothing is left in a
\* buffer, and the file is neither reopened nor changed.
C12_FileLifecycle ==
    /\ [](f_opens <= 1)
    /\ [][f_opens' # f_opens
            => (FileLogStep /\ f_res' = Returned /\ f_logged = <<>> /\ ~f_closed)]_vars
    /\ [](f_logged = <<>> => (f_opens = 0 /\ f_exists = (f_prior # <<>>) /\ f_disk = f_prior))
    /\ [][FileCloseStep => (f_res' = Returned /\ f_closed')]_vars
    /\ [](f_closed => (f_file = None /\ f_buffer = <<>>))
    /\ [][f_closed => (f_closed' /\ UNCHANGED <<f_opens, f_exists, f_disk>>)]_vars

C12_Witness ==
    /\ f_nclose = 2
    /\ f_opens = 1
    /\ Len(f_logged) = 2
    /\ f_prior = <<>>
    /\ f_exists
    /\ f_res = ClosedWriterError

\* C13: every log_metric call on a closed file writer, with valid or invalid
\* arguments, raises SageMakerMetricsWriterException, writes nothing and
\* creates no file.
C13_FileLogAfterClose ==
    [][(f_closed /\ FileLogStep)
         => (f_res' = ClosedWriterError /\ UNCHANGED <<f_disk, f_buffer, f_exists, f_opens>>)]_vars

\* The text of the lines of the given records.
RECURSIVE TextOf(_)
TextOf(records) ==
    IF records = <<>> THEN <<>>
    ELSE json_dumps(Head(records)) \o <<Newline>> \o TextOf(Tail(records))

\* C14: whenever log_metric has returned, the metrics file holds what it
\* held at construction followed by one complete line per returned call, in
\* call order: nothing waits in a buffer.
C14_WriteThrough == f_disk = f_prior \o TextOf(f_logged)

RECURSIVE WithoutNone(_)
WithoutNone(v) ==
    IF v.kind = "obj"
    THEN Object(v.cls, [k \in {h \in DOMAIN v.dict : v.dict[h] # NoneArg} |-> WithoutNone(v.dict[k])])
    ELSE IF v.kind = "list" THEN List([j \in 1..Len(v.items) |-> WithoutNone(v.items[j])])
    ELSE IF v.kind = "dict" THEN Dict([k \in DOMAIN v.dict |-> WithoutNone(v.dict[k])])
    ELSE v
HasNone(v) == WithoutNone(v) # v

ExternalName(k) ==
    IF k \in DOMAIN custom_boto_names("DummyRecord")
    THEN custom_boto_names("DummyRecord")[k] ELSE to_camel_case(k)

\* C16: the keys of every update or delete request are exactly the external
\* names of the members registered for the operation that the instance holds
\* with a value other than None; the client is never among them.
C16_RequestKeys ==
    \A j \in 1..Len(m_requests) :
        LET req == m_requests[j]
            sent == {k \in DOMAIN req.self : k \in req.members /\ req.self[k] # NoneArg}
        IN  /\ req.members = (IF req.method = "update" THEN boto_update_members
                              ELSE boto_delete_members)
            /\ DOMAIN req.kwargs = {ExternalName(k) : k \in sent}
            /\ ExternalName(sagemaker_boto_client) \notin DOMAIN req.kwargs

C16_Witness ==
    \E j \in 1..Len(m_requests) :
        LET req == m_requests[j]
        IN  /\ req.method = "update"
            /\ {attr_a, attr_a_b, attr_ab} \subseteq DOMAIN req.self
            /\ req.self[attr_a] = NoneArg
            /\ req.self[attr_a_b] # NoneArg
            /\ req.self[attr_ab] # NoneArg
            /\ DOMAIN req.kwargs = {<<"a", "B">>}

InputLogStep == t_nlog' # t_nlog /\ t_call' \in {"log_input", "log_input_artifact"}
OutputLogStep == t_nlog' # t_nlog /\ t_call' \in {"log_output", "log_output_artifact"}
Size(artifacts) == Cardinality(DOMAIN artifacts)

\* C19: a call that logs an input (an output) while the trial component holds
\* 30 input (output) artifacts raises ValueError, uploads nothing, adds no
\* lineage artifact and leaves both maps as they are; and neither map ever
\* holds more than 30 entries.
C19_ArtifactLimit ==
    /\ [][(InputLogStep /\ Size(t_input_artifacts) = ArtifactLimit)
            => (/\ t_res' = LimitError
                /\ UNCHANGED <<t_input_artifacts, t_output_artifacts, t_uploads, t_artifacts>>)]_vars
    /\ [][(OutputLogStep /\ Size(t_output_artifacts) = ArtifactLimit)
            => (/\ t_res' = LimitError
                /\ UNCHANGED <<t_input_artifacts, t_output_artifacts, t_uploads, t_artifacts>>)]_vars
    /\ [](Size(t_input_artifacts) <= ArtifactLimit /\ Size(t_output_artifacts) <= ArtifactLimit)

C19_Witness ==
    /\ t_call = "log_input_artifact"
    /\ t_res = LimitError
    /\ Size(t_input_artifacts) = ArtifactLimit
    /\ ArtifactLimit + 1 \in DOMAIN t_input_artifacts
    /\ Len(t_uploads) = 1
    /\ Len(t_artifacts) = 1

\* The deletions among the calls made, and the deletions that empty the
\* trials listed: of each trial its trial components, then the trial itself.
Deletions(made) ==
    SelectSeq(made, LAMBDA c : c.method \in {"delete_trial_component", "delete_trial",
                                              "delete_experiment"})
RECURSIVE ExpectedDeletions(_)
ExpectedDeletions(trials) ==
    IF trials = <<>> THEN <<>>
    ELSE [j \in 1..Len(Head(trials).components) |->
              Call("delete_trial_component", Head(trials).components[j], TRUE)]
         \o <<Call("delete_trial", Head(trials).trial_name, TRUE)>>
         \o ExpectedDeletions(Tail(trials))
EveryCallSucceeded == \A j \in 1..Len(d_calls) : d_calls[j].ok

\* C20: when delete_all('--force') has ended and every call on the service
\* succeeded, it has returned, and the deletions it made are, in this order
\* and once each: for every trial in listing order its trial components in
\* listing order and then the trial, and at the end the experiment.
C20_DeleteAllOrder ==
    (d_action = "--force" /\ d_pc \in {"returned", "raised"} /\ EveryCallSucceeded)
        => /\ d_pc = "returned"
           /\ Deletions(d_calls) =
                  ExpectedDeletions(d_listed)
                  \o (IF d_cls = "Experiment" THEN <<Call("delete_experiment", experiment_name, TRUE)>>
                      ELSE <<>>)

\* C21: delete_all('--force') makes at most MAX_DELETE_ALL_ATTEMPTS passes;
\* every pass before the last one made has failed (no pass follows one that
\* completed); it has returned exactly if the last pass made completed
\* without an exception; and it has raised 'Failed to delete, please try
\* again.' exactly if MAX_DELETE_ALL_ATTEMPTS passes were made and all failed.
C21_RetryBound ==
    LET n == Len(d_passes)
        all_failed == \A j \in 1..n : d_passes[j] # NoException
    IN  d_action = "--force"
            => /\ n <= MAX_DELETE_ALL_ATTEMPTS
               /\ n = d_delete_attempt_count
               /\ \A j \in 1..(n - 1) : d_passes[j] # NoException
               /\ (d_pc = "returned") <=> (n >= 1 /\ d_passes[n] = NoException)
               /\ d_pc = "returned" => d_res = Returned
               /\ d_pc = "raised" => (n = MAX_DELETE_ALL_ATTEMPTS /\ all_failed
                                      /\ d_res = FailedToDelete)
               /\ (n = MAX_DELETE_ALL_ATTEMPTS /\ all_failed)
                     => (d_pc \in {"loop", "raised"} /\ (d_pc = "loop" => ENABLED DeleteAllAttempt))

C21_Witness ==
    /\ d_action = "--force"
    /\ d_pc = "returned"
    /\ Len(d_passes) = MAX_DELETE_ALL_ATTEMPTS
    /\ d_passes[1] = ServiceError
    /\ d_passes[2] = ServiceError
    /\ ~d_exists

\* C22: a batch_put_metrics call starts only when no call of the writer is in
\* progress; while one is in progress the publisher thread, the only caller
\* of batch_put_metrics, is inside it; and a call in progress ends only by
\* returning or raising to the publisher.  This holds in every interleaving
\* of the threads that call log_metric and close().
C22_NoOverlappingCalls ==
    /\ [][calls' # calls
            => (in_flight = <<>> /\ in_flight' # <<>> /\ wpc = "publish" /\ wpc' = "call")]_vars
    /\ [](in_flight # <<>> <=> wpc \in {"call", "hung"})
    /\ [][(in_flight # <<>> /\ in_flight' # in_flight)
            => (in_flight' = <<>> /\ wpc = "call" /\ wpc' = "loop" /\ response'.kind # "none")]_vars

C22_Witness ==
    /\ scenario = "concurrent"
    /\ wpc = "call"
    /\ Len(calls) > Len(in_flight)
    /\ tpc["t1"] = "c_join"
    /\ tpc["t2"] = "put"

\* The list that _get_items_from_queue has drained when its loop ends in this
\* step (before the pill is looked for).
Drained == IF queue = <<>> THEN items ELSE Append(items, Head(queue))
DrainEnds == wpc = "drain" /\ wpc' = "publish"

\* C23: every batch_put_metrics call carries between 1 and BATCH_MAX_SIZE
\* data points and no pill; a cycle that has dequeued the pill alone makes no
\* call; and (counted in the burst scenario, for the first MaxCounted calls)
\* k calls have carried at most k * BATCH_MAX_SIZE points, so that N points
\* take at least ceil(N / BATCH_MAX_SIZE) calls.
C23_BatchSize ==
    /\ [][calls' # calls
            => /\ Len(in_flight') \in 1..BATCH_MAX_SIZE
               /\ calls' = calls \o in_flight'
               /\ \A j \in 1..Len(in_flight') : in_flight'[j] # terminate_message]_vars
    /\ [][(DrainEnds /\ Drained = <<terminate_message>>) => items' = <<>>]_vars
    /\ [][(wpc = "publish" /\ items = <<>>)
            => (wpc' \in {"publish", "loop"} /\ UNCHANGED <<calls, in_flight>>)]_vars
    /\ [](scenario = "burst"
            => /\ ncalls < MaxCounted => Len(calls) <= ncalls * BATCH_MAX_SIZE
               /\ ncalls <= Len(calls))

C23_Witness ==
    /\ scenario = "burst"
    /\ Len(calls) = QUEUE_SIZE + BurstExtra
    /\ ncalls = MaxCounted
    /\ wpc = "publish"
    /\ items = <<>>
    /\ should_terminate

RealPoint(item) == item # terminate_message

\* C24: when the list drained in one cycle holds the pill, the list handed on
\* is that list without pills, in the same order, and _should_terminate is
\* set; if real points are left they are all passed to batch_put_metrics in
\* one call; and after that flush the publisher thread ends without another
\* cycle.
C24_PillBatch ==
    /\ [][(DrainEnds /\ Contains(Drained, terminate_message))
            => (items' = SelectSeq(Drained, RealPoint) /\ should_terminate')]_vars
    /\ [][(wpc = "publish" /\ should_terminate /\ items # <<>> /\ wpc' # wpc)
            => (wpc' = "call" /\ in_flight' = items /\ calls' = calls \o items)]_vars
    /\ [][(wpc = "loop" /\ should_terminate /\ wpc' # wpc) => wpc' = "done"]_vars
    /\ [][wpc = "done" => (wpc' = "done" /\ UNCHANGED <<calls, in_flight>>)]_vars

\* The same for the cycles that have drained the pill once.
OnePillBatch ==
    /\ [][(DrainEnds /\ Contains(Drained, terminate_message)
                     /\ ~Contains(Remove(Drained, terminate_message), terminate_message))
            => (items' = SelectSeq(Drained, RealPoint) /\ should_terminate')]_vars
    /\ [][(wpc = "publish" /\ should_terminate /\ items # <<>> /\ wpc' # wpc
                           /\ ~Contains(items, terminate_message))
            => (wpc' = "call" /\ in_flight' = items /\ calls' = calls \o items)]_vars
    /\ [][(wpc = "loop" /\ should_terminate /\ wpc' # wpc) => wpc' = "done"]_vars
    /\ [][wpc = "done" => (wpc' = "done" /\ UNCHANGED <<calls, in_flight>>)]_vars

\* C25: when batch_put_metrics raises, the exception becomes last_error and
\* nothing of the caller threads or of the queue changes; with an error
\* stored, a log_metric call on the open writer still reaches its put (or
\* raises its validation error); after the failed flush the publisher goes on
\* with the next cycle unless the pill was in the batch, and it ends only
\* with _should_terminate set, which only a drained pill sets; and the points
\* logged before a close() are all submitted when the publisher has ended,
\* failed flushes or not.
C25_FailureIsolation ==
    /\ [][(wpc = "call" /\ wpc' # wpc /\ response'.kind = "raise")
            => /\ last_error' = Exc(response'.exc, nfail + 1, <<>>)
               /\ wpc' = "loop"
               /\ UNCHANGED <<queue, tpc, res, pending, work_queue, closed,
                              should_terminate>>]_vars
    /\ [][\A t \in Threads :
            (has_error /\ work_queue # None /\ LogStep(t))
                => IF nlog'[t] # nlog[t]
                   THEN tpc'[t] = "put" /\ res'[t] = res[t]
                   ELSE res'[t].type \in ValidationErrors]_vars
    /\ [][(wpc = "loop" /\ wpc' # wpc)
            => wpc' = IF should_terminate THEN "done" ELSE "get"]_vars
    /\ [](wpc = "loop" => ENABLED WorkerLoop)
    /\ [](wpc = "done" => should_terminate)
    /\ [][(should_terminate' /\ ~should_terminate)
            => (DrainEnds /\ Contains(Drained, terminate_message))]_vars
    /\ []((nfail > 0 /\ close_returned /\ open_closes = 1 /\ wpc = "done")
            => \A id \in early : Occurrences(id) = 1)

C25_Witness ==
    /\ wpc = "done"
    /\ close_returned
    /\ open_closes = 1
    /\ nfail = 1
    /\ last_error = Exc("ClientError", 1, <<>>)
    /\ response.kind = "return"
    /\ Len(calls) = 2
    /\ calls[2].id = <<"t1", 2>>
    /\ res["t1"] = Returned

\* C26: once the publisher has drained the pill it starts no further cycle:
\* after the flush of that batch no batch_put_metrics call is started and the
\* thread ends; and once a close() has returned with no join() having timed
\* out, the thread has ended and nothing is submitted any more, whatever is
\* called on the writer afterwards.
C26_NoSubmissionAfterShutdown ==
    /\ [](should_terminate => wpc \in {"publish", "call", "hung", "loop", "done"})
    /\ [][(should_terminate /\ wpc \in {"call", "hung", "loop", "done"})
            => (calls' = calls /\ in_flight' \in {in_flight, <<>>} /\ should_terminate'
                /\ \/ wpc' = wpc
                   \/ wpc = "call" /\ wpc' \in {"loop", "hung"}
                   \/ wpc = "loop" /\ wpc' = "done")]_vars
    /\ []((close_returned /\ ~timed_out) => (wpc = "done" /\ in_flight = <<>>))
    /\ [][(close_returned /\ ~timed_out) => UNCHANGED <<calls, in_flight, wpc>>]_vars

C26_Witness ==
    /\ close_returned
    /\ ~timed_out
    /\ calls # <<>>
    /\ nclose["t1"] = 2
    /\ nlog["t1"] = 2
    /\ tpc["t1"] = "idle"
    /\ res["t1"] = ClosedWriterError
    /\ Len(calls) = 1

\* The positions inside close(), and the next step of a close() in progress.
InClose(t) == tpc[t] \in {"c_ref", "c_put", "c_join", "c_closed", "c_none", "c_check", "c_raise"}
CloseAdvance(t) ==
    \/ CloseRef(t)
    \/ ClosePut(t)
    \/ CloseJoin(t)
    \/ CloseSetClosed(t)
    \/ CloseSetNone(t)
    \/ CloseCheck(t)
    \/ CloseRaise(t)

\* C27: while the publisher thread is stuck for ever inside batch_put_metrics,
\* a close() in progress can always take its next step (the hung thread is the
\* only one that takes entries out of the queue, so a close() that cannot
\* step then never returns), whatever the queue holds.
C27_CloseTerminates ==
    \A t \in Threads : (wpc = "hung" /\ InClose(t)) => ENABLED CloseAdvance(t)

\* C28: a point whose log_metric has returned is submitted: when the
\* publisher thread has ended, no point is left in the queue (only pills can
\* be).  Stated for a writer whose close() was not entered twice at once.
C28_NoPointLeftBehind ==
    (wpc = "done" /\ open_closes <= 1)
        => \A j \in 1..Len(queue) : queue[j] = terminate_message

\* Number of pills in a list.
Pills(list) == Cardinality({j \in 1..Len(list) : list[j] = terminate_message})

\* C29: with close() called by two threads at once, the queue and the batch
\* being drained never hold more than one pill together, the list that
\* _publish_metrics converts never holds a pill, and when the publisher has
\* ended and no close() is in progress every point logged before the first
\* close() was called has been submitted once.
C29_ConcurrentClose ==
    /\ Pills(queue) + Pills(items) <= 1
    /\ wpc = "publish" => Pills(items) = 0
    /\ (wpc = "done" /\ close_returned /\ \A t \in Threads : ~InClose(t))
           => \A id \in early : Occurrences(id) = 1

\* A step of a caller thread (log_metric, close, __enter__, __exit__).
CallerStep == <<tpc, pending, res, inwith, counterVars>>' # <<tpc, pending, res, inwith, counterVars>>

\* C30: has_error is False after construction and never goes from True to
\* False; a flush that ends without an error leaves last_error as it was; a
\* flush that fails makes last_error the error of that flush; steps of
\* log_metric and close() leave it alone; and whenever it changes, the
\* publisher thread has just stored an exception.
C30_ErrorSlotMonotone ==
    /\ ~has_error
    /\ [][has_error => has_error']_vars
    /\ [][(wpc = "call" /\ wpc' = "loop" /\ nfail' = nfail)
            => last_error' = last_error]_vars
    /\ [][nfail' # nfail
            => (nfail' = nfail + 1 /\ last_error'.n = nfail' /\ last_error' # last_error)]_vars
    /\ [][CallerStep => last_error' = last_error]_vars
    /\ [][last_error' # last_error
            => (has_error' /\ last_error' = recorded' /\ wpc' = "loop"
                /\ wpc \in {"get", "drain", "publish", "call"})]_vars

C30_Witness ==
    /\ raise_on_close
    /\ closed
    /\ nfail = 1
    /\ response.kind = "return"
    /\ "Errors" \in DOMAIN response.body
    /\ response.body.Errors = <<>>
    /\ last_error.n = 1
    /\ tpc["t1"] = "idle"
    /\ res["t1"] = last_error

====
